---- MODULE Spec2Model ----
(***************************************************************************)
(* fetch-filecache-for-crawling: a fetch() with a file cache.              *)
(*                                                                         *)
(* Two revisions of the module are modelled, selected by the variable      *)
(* `version`, which never changes after Init:                              *)
(*   "v5"  src/unnamed/part_002   (cacheFetch, native fetch)               *)
(*   "v4"  src/fetch-filecache.js (fetch, node-fetch)                      *)
(*   "v1"  src/unnamed/part_001   (fetch, node-fetch, list of fetched URLs) *)
(* Every `await` on an operation of the filesystem, the network or a timer *)
(* is a point where the other calls of the process may run. An `await` on  *)
(* a promise that is already settled only yields to the job queue: its     *)
(* continuation runs before the event loop delivers another completion.    *)
(***************************************************************************)
EXTENDS Integers, Sequences, FiniteSets, TLC

\* ------------------------------------------------------------------------
\* Bounds of the model
\* ------------------------------------------------------------------------
NCalls == 2
MaxClock == 1002
MaxFaults == 1

\* ------------------------------------------------------------------------
\* Program constants and value encodings
\* ------------------------------------------------------------------------
\* `refresh * 1000`; Date#toUTCString() has a resolution of one second
MsPerSec == 1000
\* fetchWithRetry(url, options, 3)
MaxAttempts == 3
\* getTime() of an invalid Date
NaN == -1
\* A header that is not set (undefined, falsy)
NoDate == -1
\* A non-empty header value that Date cannot parse
BadDate == -2

Calls == 1..NCalls
\* "u1" and "u1b" are two short URLs that differ in their protocol only
Urls == {"u1", "u1b", "u2"}
Folders == {"F1", "F2"}

\* HTTP dates and toUTCString() strings are represented by the number of
\* whole seconds they denote: the string has no millisecond field.
ToUTCString(ms) == ms \div MsPerSec
DateParse(str) == IF str >= 0 THEN str * MsPerSec ELSE NaN

\* IEEE arithmetic on getTime() values: NaN propagates, `NaN < x` is false
Plus(a, b) == IF a = NaN \/ b = NaN THEN NaN ELSE a + b
Lt(a, b) == a # NaN /\ b # NaN /\ a < b

\* filenamify(url): the cache key of a URL. filenamifyUrl drops the protocol
\* and replaces the reserved characters; the MD5 of the URL is only added to
\* a name of 60 characters or more
filenamify(url) == IF url = "u2" THEN "k2" ELSE "k1"
Keys == {filenamify(u) : u \in Urls}

NoHeaders == [date |-> NoDate, etag |-> "", lm |-> NoDate, expires |-> NoDate,
              cc |-> <<>>, ctype |-> ""]

\* Content of a `.headers` file: kind "absent" (no file), "bad" (file that
\* JSON.parse rejects) or "ok" (status, received and the response headers)
NoMeta == [kind |-> "absent", status |-> 0, received |-> NoDate, h |-> NoHeaders]
BadMeta == [kind |-> "bad", status |-> 0, received |-> NoDate, h |-> NoHeaders]
Meta(status, received, h) ==
  [kind |-> "ok", status |-> status, received |-> received, h |-> h]

Refresh(mode, n) == [mode |-> mode, n |-> n]

\* Content of a body file: the bytes written, or NoFile when there is none
NoFile == "nofile"

\* Statuses for which the Response constructor of the fetch standard accepts
\* no body
NullBodyStatus == {204, 205}

\* ------------------------------------------------------------------------
\* hasExpired(headers, refresh)
\* ------------------------------------------------------------------------
\* `headers.received || headers.date || 'Jan 1, 1970, 00:00:00.000 GMT'`
ReceivedTime(headers) ==
  IF headers.received # NoDate THEN DateParse(headers.received)
  ELSE IF headers.h.date # NoDate THEN DateParse(headers.h.date)
  ELSE 0

\* The loop over the Cache-Control tokens: the first no-cache or max-age
\* directive decides, "none" when the loop ends without a verdict
RECURSIVE CacheControlVerdict(_, _, _)
CacheControlVerdict(tokens, received, t) ==
  IF tokens = <<>> THEN "none"
  ELSE LET token == Head(tokens) IN
       IF token.param = "no-cache" THEN "expired"
       ELSE IF token.param = "max-age"
            THEN IF Lt(Plus(received, IF token.arg = NaN THEN NaN
                                      ELSE token.arg * MsPerSec), t)
                 THEN "expired" ELSE "valid"
            ELSE CacheControlVerdict(Tail(tokens), received, t)

\* hasExpired once the record is known to exist and the mode is neither
\* 'force' nor 'never': 'once', an integer, then the HTTP expiration rules
ByAgeOrHttpRules(headers, refresh, t, launch) ==
  LET received == ReceivedTime(headers) IN
  IF refresh.mode = "once" THEN Lt(received, launch)
  ELSE IF refresh.mode = "int"
       THEN Lt(Plus(received, refresh.n * MsPerSec), t)
       ELSE IF headers.h.expires # NoDate
            THEN Lt(DateParse(headers.h.expires), t)
            ELSE LET v == CacheControlVerdict(headers.h.cc, received, t) IN
                 IF v = "none" THEN TRUE ELSE v = "expired"

\* (mutant) 'never' is not recognised: the HTTP rules decide
hasExpired_never_unknown(headers, refresh, t, launch) ==
  IF headers.kind # "ok" THEN TRUE
  ELSE IF refresh.mode = "force" THEN TRUE
  ELSE ByAgeOrHttpRules(headers, refresh, t, launch)

\* (mutant) 'never' is tested before the record is known to exist
hasExpired_never_first(headers, refresh, t, launch) ==
  IF refresh.mode = "never" THEN FALSE
  ELSE IF headers.kind # "ok" THEN TRUE
  ELSE IF refresh.mode = "force" THEN TRUE
  ELSE ByAgeOrHttpRules(headers, refresh, t, launch)

\* (mutant) 'force' is not recognised: the HTTP rules decide
hasExpired_force_unknown(headers, refresh, t, launch) ==
  IF headers.kind # "ok" THEN TRUE
  ELSE IF refresh.mode = "never" THEN FALSE
  ELSE ByAgeOrHttpRules(headers, refresh, t, launch)

hasExpired(headers, refresh, t, launch) ==
  IF headers.kind # "ok" THEN TRUE
  ELSE IF refresh.mode = "force" THEN TRUE
  ELSE IF refresh.mode = "never" THEN FALSE
  ELSE ByAgeOrHttpRules(headers, refresh, t, launch)

\* ------------------------------------------------------------------------
\* shouldReturn304(requestHeaders, responseHeaders)
\* ------------------------------------------------------------------------
\* (mutant) If-None-Match is not looked at
shouldReturn304_ims_only(requestHeaders, responseHeaders) ==
  /\ requestHeaders.ims # NoDate
  /\ DateParse(requestHeaders.ims) # NaN
  /\ DateParse(responseHeaders.lm) # NaN
  /\ DateParse(requestHeaders.ims) >= DateParse(responseHeaders.lm)

\* `.split(',').map(value => value.trim()).filter(value => !!value)` of an
\* If-None-Match value. A value without a comma is its own single entry; the
\* values with commas that the calls of the model send are listed.
SplitEtags(value) ==
  CASE value = "" -> <<>>
    [] value = "," -> <<>>
    [] value = "e2, e1" -> <<"e2", "e1">>
    [] value = "e2, W/e1" -> <<"e2", "W/e1">>
    [] OTHER -> <<value>>

\* (mutant) the etags are compared as they are
shouldReturn304_strong(requestHeaders, responseHeaders) ==
  LET requestEtags == SplitEtags(requestHeaders.inm) IN
  IF requestEtags # <<>>
  THEN \E i \in 1..Len(requestEtags) : requestEtags[i] = responseHeaders.etag
  ELSE shouldReturn304_ims_only(requestHeaders, responseHeaders)

\* (the empty string and NoDate are the headers that are not set)
shouldReturn304(requestHeaders, responseHeaders) ==
  LET requestEtags == SplitEtags(requestHeaders.inm)
      responseEtag == responseHeaders.etag
  IN
  IF requestEtags # <<>>
  THEN \E i \in 1..Len(requestEtags) :
         LET etag == requestEtags[i] IN
         \/ etag = responseEtag
         \/ etag = "W/" \o responseEtag
         \/ "W/" \o etag = responseEtag
  ELSE IF requestHeaders.ims # NoDate
       THEN /\ DateParse(requestHeaders.ims) # NaN
            /\ DateParse(responseHeaders.lm) # NaN
            /\ DateParse(requestHeaders.ims) >= DateParse(responseHeaders.lm)
       ELSE FALSE

\* `isRequestCacheAware`: the caller sent If-None-Match or If-Modified-Since
isRequestCacheAware(o) == o.inm # "" \/ o.ims # NoDate

\* The headers kept in a 304 answer built from the cache
Keep304(h) == [h EXCEPT !.ctype = ""]

\* ------------------------------------------------------------------------
\* State
\* ------------------------------------------------------------------------
VARIABLES
  version,          \* revision of the module that runs
  launchTime,       \* `launchTime`, ms
  now,              \* wall clock, ms
  folder,           \* cache folder path -> "absent" | "dir" | "file"
  meta,             \* <<folder, key>> -> content of the .headers file
  body,             \* <<folder, key>> -> content of the body file
  cacheFolderReset, \* `cacheFolderReset`
  pendingFetches,   \* `pendingFetches`: url -> call that created the handle, 0 = none
  handle,           \* call -> promise it created: state and rejection reason
  pc,               \* call -> where the call is suspended
  opt,              \* call -> url and options of the call
  waitsOn,          \* call -> handle the call awaits in the pending branch
  headers,          \* call -> `headers` / `prevHeaders` object of the call
  remaining,        \* call -> `remainingAttempts`
  resp,             \* call -> response of the network primitive
  netCalls,         \* call -> invocations of the network primitive so far
  orphan,           \* call -> 'close' handler of a write stream that failed
  faultsLeft,       \* failures the network and the disk may still produce
  result,           \* call -> what the call returned or threw
  globalConfig,     \* `globalConfig`
  fetchedUrls,      \* v1, `fetchedUrls`: <<folder, url>> -> fetched in this process
  readable,         \* call -> what the caller read from the body stream of
                    \* the response, "unread" before
  callerHeaders     \* `headers` of an options object that the caller passes
                    \* to several calls: the validators it holds

vars == <<version, launchTime, now, folder, meta, body, cacheFolderReset,
          pendingFetches, handle, pc, opt, waitsOn, headers, remaining, resp,
          netCalls, orphan, faultsLeft, result, globalConfig, fetchedUrls,
          readable, callerHeaders>>

\* What a step of a call leaves alone, by group (v1 alone has fetchedUrls)
process == <<version, launchTime, now, globalConfig, callerHeaders>>
fixed == <<process, fetchedUrls, readable>>
disk == <<folder, meta, body>>
locals == <<headers, remaining>>

Slots == Folders \X Keys

NoOpt == [url |-> "u1", cacheFolder |-> "F1", refresh |-> Refresh("default", 0),
          inm |-> "", ims |-> NoDate, resetCache |-> FALSE, logToConsole |-> FALSE,
          shared |-> FALSE]
\* `options.headers` of a caller that gives no validator
NoValidators == [ims |-> NoDate, inm |-> ""]
NoResp == [status |-> 0, h |-> NoHeaders, body |-> ""]
NoResult == [kind |-> "none", status |-> 0, h |-> NoHeaders, body |-> "",
             err |-> "", hit |-> FALSE]
NoHandle == [state |-> "none", err |-> ""]

Slot(c) == <<opt[c].cacheFolder, filenamify(opt[c].url)>>

\* Calls of URL u that are between the start of the network exchange and the
\* end of the cache write
InExchange(c) ==
  pc[c] \in {"net", "sleep", "stream", "closing", "writeMeta", "write304"}

\* ------------------------------------------------------------------------
\* Pending fetches
\* ------------------------------------------------------------------------
\* (mutant) the map is never found to hold a handle
isFetchPending_never(url) == FALSE

\* (mutant) the map is looked up by cache key
isFetchPending_by_key(url) ==
  \E u \in Urls : filenamify(u) = filenamify(url) /\ pendingFetches[u] # 0

isFetchPending(url) == pendingFetches[url] # 0

\* (mutant) the handle is created but not stored in the map
addPendingFetch_unregistered(c, url) ==
  /\ handle' = [handle EXCEPT ![c] = [state |-> "pending", err |-> ""]]
  /\ UNCHANGED pendingFetches

\* addPendingFetch(): a new handle replaces whatever the map holds for the URL
addPendingFetch(c, url) ==
  /\ pendingFetches' = [pendingFetches EXCEPT ![url] = c]
  /\ handle' = [handle EXCEPT ![c] = [state |-> "pending", err |-> ""]]

\* resolvePendingFetch() and rejectPendingFetch(err): settle the handle the
\* map holds for the URL, if any, and delete it from the map
SettlePendingFetch(url, st, err) ==
  /\ pendingFetches' = [pendingFetches EXCEPT ![url] = 0]
  /\ handle' = IF pendingFetches[url] = 0 THEN handle
               ELSE [handle EXCEPT ![pendingFetches[url]] =
                                      [state |-> st, err |-> err]]

resolvePendingFetch(url) == SettlePendingFetch(url, "resolved", "")
rejectPendingFetch(url, err) == SettlePendingFetch(url, "rejected", err)

\* A call whose continuation is in the job queue: v4 after
\* `await getPendingFetch()` returned false, and a call of the pending branch
\* once the handle it awaits is settled
MicroReady(c) ==
  \/ pc[c] = "getPendingFetch"
  \/ pc[c] = "waiting" /\ handle[waitsOn[c]].state # "pending"

\* The job queue is empty: the event loop delivers the next completion
EventLoopTurn == \A c \in Calls : ~MicroReady(c)

\* The call is over: its local variables are gone
Throw(c, err) ==
  /\ pc' = [pc EXCEPT ![c] = "failed"]
  /\ result' = [result EXCEPT ![c] = [NoResult EXCEPT !.kind = "err", !.err = err]]
  /\ headers' = [headers EXCEPT ![c] = NoMeta]
  /\ remaining' = [remaining EXCEPT ![c] = 0]

Return(c, r) ==
  /\ pc' = [pc EXCEPT ![c] = "done"]
  /\ result' = [result EXCEPT ![c] = r]
  /\ headers' = [headers EXCEPT ![c] = NoMeta]
  /\ remaining' = [remaining EXCEPT ![c] = 0]

\* The catch block of cacheFetch: rejectPendingFetch(err); throw err
CatchAndThrow(c, err) ==
  /\ rejectPendingFetch(opt[c].url, err)
  /\ Throw(c, err)

\* ------------------------------------------------------------------------
\* The origin server and the network primitive
\* ------------------------------------------------------------------------
OriginFull ==
  { [status |-> 200, body |-> "b1",
     h |-> [NoHeaders EXCEPT !.etag = "e1", !.ctype = "text",
                             !.cc = <<[param |-> "max-age", arg |-> 1]>>]],
    [status |-> 404, body |-> "b2", h |-> [NoHeaders EXCEPT !.ctype = "text"]] }

Origin304 == [status |-> 304, body |-> "", h |-> [NoHeaders EXCEPT !.etag = "e1"]]

\* A 304 that repeats every header of the representation, with new values
Origin304Full ==
  [status |-> 304, body |-> "",
   h |-> [date |-> 1, etag |-> "e2", lm |-> 4, expires |-> 7,
          cc |-> <<[param |-> "max-age", arg |-> 1]>>, ctype |-> "html"]]

\* 204 No Content
OriginNoContent == [status |-> 204, body |-> "", h |-> NoHeaders]

OriginAny == OriginFull \cup {OriginNoContent}

\* A 304 only answers a conditional request
OriginResponses(requestHeaders) ==
  OriginAny \cup (IF requestHeaders.inm # "" \/ requestHeaders.ims # NoDate
                   THEN {Origin304, Origin304Full} ELSE {})

NetErrors == {"NetworkError", "AbortError"}

\* with a second error that is not an abort, to tell the last error of a
\* call from its first
AnyNetError == NetErrors \cup {"ECONNRESET"}

\* conditionalFetch: the validators the request carries
RequestHeaders(ver, o, prevHeaders) ==
  LET inject == prevHeaders.kind = "ok" /\ (ver # "v5" \/ ~isRequestCacheAware(o)) IN
  [ims |-> IF inject /\ prevHeaders.h.lm # NoDate THEN prevHeaders.h.lm ELSE o.ims,
   inm |-> IF inject /\ prevHeaders.h.etag # "" THEN prevHeaders.h.etag ELSE o.inm]

\* (mutant) the last attempt is not made
GiveUp_one_short(ver, err, remainingAttempts) ==
  (ver = "v5" /\ err = "AbortError") \/ remainingAttempts <= 1

\* fetchWithRetry: throw instead of sleeping and trying again
GiveUp(ver, err, remainingAttempts) ==
  (ver = "v5" /\ err = "AbortError") \/ remainingAttempts <= 0

\* ------------------------------------------------------------------------
\* cacheFetch(url, options), step by step
\* ------------------------------------------------------------------------
\* (mutant) the marker of the folder is not looked at
MustReset_every_call(o) == o.resetCache

\* `config.resetCache && !cacheFolderReset[config.cacheFolder]`
MustReset(o) == o.resetCache /\ ~cacheFolderReset[o.cacheFolder]

\* The `options` argument of a call: `has` holds the names of the own
\* properties among resetCache, refresh, logToConsole, forceRefresh and
\* avoidNetworkRequests; cacheFolder "" is a cacheFolder that is not given
NoOptions ==
  [url |-> "u1", cacheFolder |-> "", has |-> {}, resetCache |-> FALSE,
   refresh |-> Refresh("default", 0), logToConsole |-> FALSE,
   forceRefresh |-> FALSE, avoidNetworkRequests |-> FALSE,
   inm |-> "", ims |-> NoDate]

\* (mutant) the global setting of the refresh strategy wins
Config_global_refresh(options, g) ==
  [url |-> options.url,
   cacheFolder |-> IF options.cacheFolder # "" THEN options.cacheFolder
                   ELSE g.cacheFolder,
   resetCache |-> IF "resetCache" \in options.has THEN options.resetCache
                  ELSE g.resetCache,
   refresh |-> g.refresh,
   logToConsole |-> IF "logToConsole" \in options.has THEN options.logToConsole
                    ELSE g.logToConsole,
   inm |-> options.inm, ims |-> options.ims, shared |-> FALSE]

\* `config`: the parameters of the call, from `options` and `globalConfig`
Config(options, g) ==
  LET avoided == IF "avoidNetworkRequests" \in options.has
                    /\ options.avoidNetworkRequests
                 THEN Refresh("never", 0) ELSE g.refresh
      forced == IF "forceRefresh" \in options.has /\ options.forceRefresh
                THEN Refresh("force", 0) ELSE avoided
  IN [url |-> options.url,
      cacheFolder |-> IF options.cacheFolder # "" THEN options.cacheFolder
                      ELSE g.cacheFolder,
      resetCache |-> IF "resetCache" \in options.has THEN options.resetCache
                     ELSE g.resetCache,
      refresh |-> IF "refresh" \in options.has THEN options.refresh ELSE forced,
      logToConsole |-> IF "logToConsole" \in options.has THEN options.logToConsole
                       ELSE g.logToConsole,
      inm |-> options.inm, ims |-> options.ims, shared |-> FALSE]

\* setParameter(name, value)
setParameter(name, value) ==
  /\ globalConfig' = [globalConfig EXCEPT ![name] = value]
  /\ UNCHANGED <<version, launchTime, now, callerHeaders, fetchedUrls, readable,
                 disk, locals,
                 cacheFolderReset, pendingFetches, handle, pc, opt, waitsOn, resp,
                 netCalls, orphan, faultsLeft, result>>

\* Entry of the call up to its first await, `o` being its `config`: the
\* reset of the cache folder (rimraf) or the stat of checkCacheFolder
Call(c, o) ==
  /\ pc[c] = "idle"
  /\ opt' = [opt EXCEPT ![c] = o]
  /\ IF MustReset(o)
     THEN /\ cacheFolderReset' = [cacheFolderReset EXCEPT ![o.cacheFolder] = TRUE]
          /\ pc' = [pc EXCEPT ![c] = "rimraf"]
     ELSE /\ pc' = [pc EXCEPT ![c] = "stat"]
          /\ UNCHANGED cacheFolderReset
  /\ UNCHANGED <<fixed, disk, locals, pendingFetches, handle, waitsOn, resp,
                 netCalls, orphan, faultsLeft, result>>

\* rimraf(cacheFolder + '/*') is over: the folder is empty
RimrafDone(c) ==
  /\ pc[c] = "rimraf"
  /\ EventLoopTurn
  /\ meta' = [s \in Slots |-> IF s[1] = opt[c].cacheFolder THEN NoMeta ELSE meta[s]]
  /\ body' = [s \in Slots |-> IF s[1] = opt[c].cacheFolder THEN NoFile ELSE body[s]]
  /\ pc' = [pc EXCEPT ![c] = "stat"]
  /\ UNCHANGED <<fixed, folder, locals, cacheFolderReset, pendingFetches, handle,
                 opt, waitsOn, resp, netCalls, orphan, faultsLeft, result>>

\* After checkCacheFolder: the pending branch or the owner branch.
\* v5 tests isFetchPending() and calls addPendingFetch() in the same turn;
\* v4 awaits getPendingFetch() before it calls addPendingFetch().
AfterCheckCacheFolder(c) ==
  IF isFetchPending(opt[c].url)
  THEN /\ waitsOn' = [waitsOn EXCEPT ![c] = pendingFetches[opt[c].url]]
       /\ pc' = [pc EXCEPT ![c] = "waiting"]
       /\ UNCHANGED <<pendingFetches, handle>>
  ELSE IF version # "v5"
       THEN /\ pc' = [pc EXCEPT ![c] = "getPendingFetch"]
            /\ UNCHANGED <<pendingFetches, handle, waitsOn>>
       ELSE /\ addPendingFetch(c, opt[c].url)
            /\ pc' = [pc EXCEPT ![c] = "readHeaders"]
            /\ UNCHANGED waitsOn

\* checkCacheFolder: fs.stat answers
StatDone(c) ==
  /\ pc[c] = "stat"
  /\ EventLoopTurn
  /\ CASE folder[opt[c].cacheFolder] = "dir" ->
            /\ AfterCheckCacheFolder(c)
            /\ UNCHANGED <<result, locals>>
       [] folder[opt[c].cacheFolder] = "absent" ->
            /\ pc' = [pc EXCEPT ![c] = "mkdir"]
            /\ UNCHANGED <<pendingFetches, handle, waitsOn, result, locals>>
       [] OTHER ->
            /\ Throw(c, "NotADirectory")
            /\ UNCHANGED <<pendingFetches, handle, waitsOn>>
  /\ UNCHANGED <<fixed, disk, cacheFolderReset, opt, resp, netCalls, orphan,
                 faultsLeft>>

\* (mutant) EEXIST is thrown like any other error of mkdir
MkdirDone_eexist_thrown(c) ==
  /\ pc[c] = "mkdir"
  /\ EventLoopTurn
  /\ IF folder[opt[c].cacheFolder] = "absent"
     THEN /\ folder' = [folder EXCEPT ![opt[c].cacheFolder] = "dir"]
          /\ AfterCheckCacheFolder(c)
          /\ UNCHANGED <<result, locals>>
     ELSE /\ Throw(c, "EEXIST")
          /\ UNCHANGED <<folder, pendingFetches, handle, waitsOn>>
  /\ UNCHANGED <<fixed, meta, body, cacheFolderReset, opt, resp, netCalls,
                 orphan, faultsLeft>>

\* checkCacheFolder: fs.mkdir answers (EEXIST is not an error)
MkdirDone(c) ==
  /\ pc[c] = "mkdir"
  /\ EventLoopTurn
  /\ folder' = [folder EXCEPT ![opt[c].cacheFolder] = "dir"]
  /\ AfterCheckCacheFolder(c)
  /\ UNCHANGED <<fixed, meta, body, locals, cacheFolderReset, opt, resp,
                 netCalls, orphan, faultsLeft, result>>

\* v4: `await getPendingFetch()` returned false, addPendingFetch(url)
GetPendingFetchDone(c) ==
  /\ pc[c] = "getPendingFetch"
  /\ addPendingFetch(c, opt[c].url)
  /\ pc' = [pc EXCEPT ![c] = "readHeaders"]
  /\ UNCHANGED <<fixed, disk, locals, cacheFolderReset, opt, waitsOn, resp,
                 netCalls, orphan, faultsLeft, result>>

\* (mutant) the rejection of the awaited handle is swallowed
PendingFetchIsOver_swallowed(c) ==
  /\ pc[c] = "waiting"
  /\ handle[waitsOn[c]].state \in {"resolved", "rejected"}
  /\ pc' = [pc EXCEPT ![c] = "readFromCache"]
  /\ UNCHANGED <<fixed, disk, locals, cacheFolderReset, pendingFetches, handle,
                 opt, waitsOn, resp, netCalls, orphan, faultsLeft, result>>

\* (mutant) the call takes the owner branch once the awaited handle is
\* resolved
PendingFetchIsOver_owner_branch(c) ==
  /\ pc[c] = "waiting"
  /\ handle[waitsOn[c]].state \in {"resolved", "rejected"}
  /\ IF handle[waitsOn[c]].state = "rejected"
     THEN Throw(c, handle[waitsOn[c]].err)
     ELSE /\ pc' = [pc EXCEPT ![c] = "readHeaders"]
          /\ UNCHANGED <<result, locals>>
  /\ UNCHANGED <<fixed, disk, cacheFolderReset, pendingFetches, handle, opt,
                 waitsOn, resp, netCalls, orphan, faultsLeft>>

\* The pending branch: the awaited handle is settled
PendingFetchIsOver(c) ==
  /\ pc[c] = "waiting"
  /\ handle[waitsOn[c]].state \in {"resolved", "rejected"}
  /\ IF handle[waitsOn[c]].state = "rejected"
     THEN Throw(c, handle[waitsOn[c]].err)
     ELSE /\ pc' = [pc EXCEPT ![c] = "readFromCache"]
          /\ UNCHANGED <<result, locals>>
  /\ UNCHANGED <<fixed, disk, cacheFolderReset, pendingFetches, handle, opt,
                 waitsOn, resp, netCalls, orphan, faultsLeft>>

\* (mutant) no revision copies the options
CopiesOptions_never(ver) == FALSE

\* v5 works on a copy of `options` and of `options.headers`; the earlier
\* revisions work on the objects of the caller
CopiesOptions(ver) == ver = "v5"

\* readHeadersFromCache answers, then hasExpired decides between
\* conditionalFetch (first network attempt) and readFromCache.
\* conditionalFetch writes the validators of the stored record into
\* `options.headers`
ReadHeadersDone(c) ==
  /\ pc[c] = "readHeaders"
  /\ EventLoopTurn
  /\ LET prevHeaders == IF meta[Slot(c)].kind = "ok" THEN meta[Slot(c)] ELSE NoMeta IN
     /\ headers' = [headers EXCEPT ![c] = prevHeaders]
     /\ IF hasExpired(prevHeaders, opt[c].refresh, now, launchTime)
        THEN /\ remaining' = [remaining EXCEPT ![c] = MaxAttempts]
             /\ netCalls' = [netCalls EXCEPT ![c] = @ + 1]
             /\ pc' = [pc EXCEPT ![c] = "net"]
             /\ callerHeaders' = IF opt[c].shared /\ ~CopiesOptions(version)
                                 THEN RequestHeaders(version, opt[c], prevHeaders)
                                 ELSE callerHeaders
             /\ UNCHANGED <<pendingFetches, handle>>
        ELSE /\ resolvePendingFetch(opt[c].url)
             /\ pc' = [pc EXCEPT ![c] = "readFromCache"]
             /\ UNCHANGED <<remaining, netCalls, callerHeaders>>
  /\ UNCHANGED <<version, launchTime, now, globalConfig, fetchedUrls, readable,
                 disk, cacheFolderReset, opt, waitsOn, resp, orphan, faultsLeft,
                 result>>

\* (mutant) the 304 leaves `received` as it was
Revalidated_received_kept(prevHeaders, response, t) ==
  [prevHeaders EXCEPT
     !.h.expires = IF response.h.expires # NoDate THEN response.h.expires ELSE @,
     !.h.cc = IF response.h.cc # <<>> THEN response.h.cc ELSE @,
     !.h.date = IF response.h.date # NoDate THEN response.h.date ELSE @]

\* (mutant) every header of the 304 is copied into the record
Revalidated_all_headers(prevHeaders, response, t) ==
  [prevHeaders EXCEPT !.received = ToUTCString(t), !.h = response.h]

\* saveToCacheIfNeeded for a 304: the object written to the .headers file
Revalidated(prevHeaders, response, t) ==
  [prevHeaders EXCEPT
     !.received = ToUTCString(t),
     !.h.expires = IF response.h.expires # NoDate THEN response.h.expires ELSE @,
     !.h.cc = IF response.h.cc # <<>> THEN response.h.cc ELSE @,
     !.h.date = IF response.h.date # NoDate THEN response.h.date ELSE @]

\* (mutant) a 304 is always taken for the revalidation of a stored record
PassesThrough304_never(ver) == FALSE

\* saveToCacheIfNeeded for a 304 when nothing is stored: v5 returns false and
\* conditionalFetch hands the response over; v4 reads prevHeaders.received
\* of undefined
PassesThrough304(ver) == ver = "v5"

\* The network primitive answers with a response: saveToCacheIfNeeded starts
NetResponse(c, r) ==
  /\ pc[c] = "net"
  /\ EventLoopTurn
  /\ r \in OriginResponses(RequestHeaders(version, opt[c], headers[c]))
  /\ IF r.status = 304
     THEN IF headers[c].kind # "ok"
          THEN \* no entry: v5 hands the 304 over, v4 fails on prevHeaders.received
               /\ IF PassesThrough304(version)
                  THEN /\ resolvePendingFetch(opt[c].url)
                       /\ Return(c, [NoResult EXCEPT !.kind = "ok", !.status = 304,
                                                     !.h = r.h])
                  ELSE CatchAndThrow(c, "TypeError")
               /\ UNCHANGED <<body, resp>>
          ELSE /\ headers' = [headers EXCEPT ![c] = Revalidated(@, r, now)]
               /\ pc' = [pc EXCEPT ![c] = "write304"]
               /\ UNCHANGED <<pendingFetches, handle, result, body, remaining, resp>>
     ELSE \* fs.createWriteStream(cacheFilename) truncates the body file.
          \* v5 reads response.body with getReader(): where the primitive
          \* gives a null body for a null body status, that call throws
          \* inside the executor of the promise, which then never settles
          /\ resp' = [resp EXCEPT ![c] = r]
          /\ body' = [body EXCEPT ![Slot(c)] = "partial"]
          /\ \/ pc' = [pc EXCEPT ![c] = "stream"]
             \/ /\ version = "v5" /\ r.status \in NullBodyStatus
                /\ pc' = [pc EXCEPT ![c] = "hung"]
          /\ UNCHANGED <<pendingFetches, handle, result, locals>>
  /\ UNCHANGED <<fixed, folder, meta, cacheFolderReset, opt, waitsOn, netCalls,
                 orphan, faultsLeft>>

\* The network primitive fails: fetchWithRetry throws or sleeps
NetFail(c, err) ==
  /\ pc[c] = "net"
  /\ EventLoopTurn
  /\ err \in AnyNetError
  /\ faultsLeft > 0
  /\ faultsLeft' = faultsLeft - 1
  /\ IF GiveUp(version, err, remaining[c])
     THEN CatchAndThrow(c, err)
     ELSE /\ pc' = [pc EXCEPT ![c] = "sleep"]
          /\ UNCHANGED <<pendingFetches, handle, result, locals>>
  /\ UNCHANGED <<fixed, disk, cacheFolderReset, opt, waitsOn, resp, netCalls,
                 orphan>>

\* The backoff sleep is over: fetchWithRetry(url, options, remainingAttempts - 1)
SleepDone(c) ==
  /\ pc[c] = "sleep"
  /\ EventLoopTurn
  /\ remaining' = [remaining EXCEPT ![c] = @ - 1]
  /\ netCalls' = [netCalls EXCEPT ![c] = @ + 1]
  /\ pc' = [pc EXCEPT ![c] = "net"]
  /\ UNCHANGED <<fixed, disk, cacheFolderReset, pendingFetches, handle, opt,
                 waitsOn, headers, resp, orphan, faultsLeft, result>>

\* The response body was read to its end and written: writable.close()
StreamDone(c) ==
  /\ pc[c] = "stream"
  /\ EventLoopTurn
  /\ body' = [body EXCEPT ![Slot(c)] = resp[c].body]
  /\ pc' = [pc EXCEPT ![c] = "closing"]
  /\ UNCHANGED <<fixed, folder, meta, locals, cacheFolderReset, pendingFetches,
                 handle, opt, waitsOn, resp, netCalls, orphan, faultsLeft, result>>

\* Reading the response body fails: nothing rejects the promise of
\* saveToCacheIfNeeded and nothing closes the write stream. The call stays
\* suspended for ever. (A runtime that turns the unobserved rejection into an
\* uncaught exception ends the process instead: every call then stops where
\* it is, which is a prefix of the behaviours kept here.)
StreamReadFail(c) ==
  /\ pc[c] = "stream"
  /\ EventLoopTurn
  /\ faultsLeft > 0
  /\ faultsLeft' = faultsLeft - 1
  /\ pc' = [pc EXCEPT ![c] = "hung"]
  /\ UNCHANGED <<fixed, disk, locals, cacheFolderReset, pendingFetches, handle,
                 opt, waitsOn, resp, netCalls, orphan, result>>

\* The write stream emits 'error': the promise is rejected; the stream will
\* still emit 'close'
StreamWriteFail(c) ==
  /\ pc[c] = "stream"
  /\ EventLoopTurn
  /\ faultsLeft > 0
  /\ faultsLeft' = faultsLeft - 1
  /\ CatchAndThrow(c, "EIO")
  /\ orphan' = [orphan EXCEPT ![c] = "close"]
  /\ UNCHANGED <<fixed, disk, cacheFolderReset, opt, waitsOn, resp, netCalls>>

\* The object the 'close' handler writes to the .headers file
Received(response, t) == Meta(response.status, ToUTCString(t), response.h)

\* 'close' of the write stream: the handler builds the headers object and
\* starts writing the .headers file
CloseEvent(c) ==
  /\ EventLoopTurn
  /\ \/ /\ pc[c] = "closing"
        /\ pc' = [pc EXCEPT ![c] = "writeMeta"]
        /\ UNCHANGED orphan
     \/ /\ orphan[c] = "close"
        /\ orphan' = [orphan EXCEPT ![c] = "writeMeta"]
        /\ UNCHANGED pc
  /\ headers' = [headers EXCEPT ![c] = Received(resp[c], now)]
  /\ UNCHANGED <<fixed, disk, remaining, cacheFolderReset, pendingFetches,
                 handle, opt, waitsOn, resp, netCalls, faultsLeft, result>>

\* The write of the .headers file of a full response answers
WriteMetaDone(c, ok) ==
  /\ EventLoopTurn
  /\ ok \/ faultsLeft > 0
  /\ faultsLeft' = IF ok THEN faultsLeft ELSE faultsLeft - 1
  /\ meta' = IF ok THEN [meta EXCEPT ![Slot(c)] = headers[c]] ELSE meta
  /\ resp' = [resp EXCEPT ![c] = NoResp]
  /\ \/ /\ pc[c] = "writeMeta"
        /\ UNCHANGED orphan
        /\ IF ok
           THEN /\ pc' = [pc EXCEPT ![c] = "readFromCache"]
                /\ headers' = [headers EXCEPT ![c] = NoMeta]
                /\ UNCHANGED <<pendingFetches, handle, result, remaining>>
           ELSE CatchAndThrow(c, "EIO")
     \/ /\ orphan[c] = "writeMeta"
        /\ orphan' = [orphan EXCEPT ![c] = "none"]
        /\ headers' = [headers EXCEPT ![c] = NoMeta]
        /\ UNCHANGED <<pc, pendingFetches, handle, result, remaining>>
  /\ UNCHANGED <<fixed, folder, body, cacheFolderReset, opt, waitsOn, netCalls>>

\* The write of the .headers file after a 304 answers; a failure is ignored
Write304Done(c, ok) ==
  /\ pc[c] = "write304"
  /\ EventLoopTurn
  /\ ok \/ faultsLeft > 0
  /\ faultsLeft' = IF ok THEN faultsLeft ELSE faultsLeft - 1
  /\ meta' = IF ok THEN [meta EXCEPT ![Slot(c)] = headers[c]] ELSE meta
  /\ headers' = [headers EXCEPT ![c] = NoMeta]
  /\ pc' = [pc EXCEPT ![c] = "readFromCache"]
  /\ UNCHANGED <<fixed, folder, body, remaining, cacheFolderReset,
                 pendingFetches, handle, opt, waitsOn, resp, netCalls, orphan,
                 result>>

\* readFromCache: the response built from the .headers file and the body file
\* `new Response(readable, { url, status, headers })` of v5 throws for a null
\* body status; a body file that does not exist gives a stream that fails
\* when it is read (body NoFile)
CacheResponse(ver, o, m, b) ==
  IF ver = "v5" /\ isRequestCacheAware(o) /\ shouldReturn304(o, m.h)
  THEN [NoResult EXCEPT !.kind = "ok", !.status = 304, !.h = Keep304(m.h)]
  ELSE IF ver = "v5" /\ m.status \in NullBodyStatus
  THEN [NoResult EXCEPT !.kind = "err", !.err = "TypeError"]
  ELSE [NoResult EXCEPT !.kind = "ok", !.h = m.h, !.body = b, !.hit = TRUE,
                        !.status = IF m.status # 0 THEN m.status ELSE 200]

\* readFromCache answers. Its failure reaches the catch block of cacheFetch
\* only on the conditionalFetch path, where the call still owns the handle.
ReadFromCacheDone(c) ==
  /\ pc[c] = "readFromCache"
  /\ EventLoopTurn
  /\ LET m == meta[Slot(c)]
         r == CacheResponse(version, opt[c], m, body[Slot(c)])
         afterFetch == waitsOn[c] = 0 /\ netCalls[c] > 0
     IN IF m.kind = "ok" /\ r.kind = "ok"
        THEN /\ Return(c, r)
             /\ IF afterFetch THEN resolvePendingFetch(opt[c].url)
                ELSE UNCHANGED <<pendingFetches, handle>>
        ELSE LET err == IF m.kind = "absent" THEN "ENOENT"
                        ELSE IF m.kind = "bad" THEN "SyntaxError" ELSE r.err IN
             IF afterFetch THEN CatchAndThrow(c, err)
             ELSE /\ Throw(c, err)
                  /\ UNCHANGED <<pendingFetches, handle>>
  /\ UNCHANGED <<fixed, disk, cacheFolderReset, opt, waitsOn, resp, netCalls,
                 orphan, faultsLeft>>

\* The caller reads the body of a response served from the cache: the
\* stream of fs.createReadStream(cacheFilename) gives what the body file
\* holds when it is read
ReadBody(c) ==
  /\ pc[c] = "done" /\ result[c].kind = "ok" /\ result[c].hit
  /\ readable[c] = "unread"
  /\ EventLoopTurn
  /\ readable' = [readable EXCEPT ![c] = body[Slot(c)]]
  /\ UNCHANGED <<process, fetchedUrls, disk, locals, cacheFolderReset,
                 pendingFetches, handle, pc, opt, waitsOn, resp, netCalls, orphan,
                 faultsLeft, result>>

\* ------------------------------------------------------------------------
\* fetch(url, options) of v1, where it differs from the later revisions.
\* refresh 'force' stands for forceRefresh, 'never' for avoidNetworkRequests
\* without forceRefresh.
\* ------------------------------------------------------------------------
Fetched(c) == <<opt[c].cacheFolder, opt[c].url>>

\* (mutant) the list of fetched URLs is not looked at
UseFetched_never(c) == FALSE

\* `fetchedUrls[config.cacheFolder][url] && !config.forceRefresh`
UseFetched(c) == fetchedUrls[Fetched(c)] /\ opt[c].refresh.mode # "force"

\* `await getPendingFetch()` returned false: addPendingFetch(url), then the
\* test of the list of fetched URLs in the same turn
GetPendingFetchDone1(c) ==
  /\ version = "v1"
  /\ pc[c] = "getPendingFetch"
  /\ IF UseFetched(c)
     THEN /\ pendingFetches' = [pendingFetches EXCEPT ![opt[c].url] = 0]
          /\ handle' = [handle EXCEPT ![c] = [state |-> "resolved", err |-> ""]]
          /\ pc' = [pc EXCEPT ![c] = "readFromCache"]
     ELSE /\ addPendingFetch(c, opt[c].url)
          /\ pc' = [pc EXCEPT ![c] = "readHeaders"]
  /\ UNCHANGED <<fixed, disk, locals, cacheFolderReset, opt, waitsOn, resp,
                 netCalls, orphan, faultsLeft, result>>

\* readHeadersFromCache answers: the cached version with avoidNetworkRequests,
\* else conditionalFetch
ReadHeadersDone1(c) ==
  /\ version = "v1"
  /\ pc[c] = "readHeaders"
  /\ EventLoopTurn
  /\ LET prevHeaders == IF meta[Slot(c)].kind = "ok" THEN meta[Slot(c)] ELSE NoMeta IN
     /\ headers' = [headers EXCEPT ![c] = prevHeaders]
     /\ IF prevHeaders.kind = "ok" /\ opt[c].refresh.mode = "never"
        THEN /\ fetchedUrls' = [fetchedUrls EXCEPT ![Fetched(c)] = TRUE]
             /\ resolvePendingFetch(opt[c].url)
             /\ pc' = [pc EXCEPT ![c] = "readFromCache"]
             /\ UNCHANGED <<remaining, netCalls>>
        ELSE /\ remaining' = [remaining EXCEPT ![c] = MaxAttempts]
             /\ netCalls' = [netCalls EXCEPT ![c] = @ + 1]
             /\ pc' = [pc EXCEPT ![c] = "net"]
             /\ UNCHANGED <<pendingFetches, handle, fetchedUrls>>
  /\ UNCHANGED <<process, readable, disk, cacheFolderReset, opt, waitsOn, resp,
                 orphan, faultsLeft, result>>

\* The origin answers 304: saveToCacheIfNeeded returns at once and
\* conditionalFetch goes on to readFromCache
NotModified1(c) ==
  /\ version = "v1"
  /\ pc[c] = "net"
  /\ EventLoopTurn
  /\ Origin304 \in OriginResponses(RequestHeaders(version, opt[c], headers[c]))
  /\ pc' = [pc EXCEPT ![c] = "readFromCache"]
  /\ UNCHANGED <<fixed, disk, locals, cacheFolderReset, pendingFetches, handle,
                 opt, waitsOn, resp, netCalls, orphan, faultsLeft, result>>

\* 'close' of the write stream: the headers object has no `received`
CloseEvent1(c) ==
  /\ version = "v1"
  /\ EventLoopTurn
  /\ pc[c] = "closing"
  /\ pc' = [pc EXCEPT ![c] = "writeMeta"]
  /\ headers' = [headers EXCEPT ![c] = Meta(resp[c].status, NoDate, resp[c].h)]
  /\ UNCHANGED <<fixed, disk, remaining, cacheFolderReset, pendingFetches,
                 handle, opt, waitsOn, resp, netCalls, orphan, faultsLeft, result>>

\* readFromCache answers; after conditionalFetch the URL is put in the list
\* of fetched URLs and the pending fetch is resolved
ReadFromCacheDone1(c) ==
  /\ version = "v1"
  /\ pc[c] = "readFromCache"
  /\ EventLoopTurn
  /\ LET m == meta[Slot(c)]
         r == CacheResponse(version, opt[c], m, body[Slot(c)])
         afterFetch == waitsOn[c] = 0 /\ netCalls[c] > 0
     IN IF m.kind = "ok"
        THEN /\ Return(c, r)
             /\ IF afterFetch
                THEN /\ fetchedUrls' = [fetchedUrls EXCEPT ![Fetched(c)] = TRUE]
                     /\ resolvePendingFetch(opt[c].url)
                ELSE UNCHANGED <<pendingFetches, handle, fetchedUrls>>
        ELSE LET err == IF m.kind = "absent" THEN "ENOENT" ELSE "SyntaxError" IN
             /\ UNCHANGED fetchedUrls
             /\ IF afterFetch THEN CatchAndThrow(c, err)
                ELSE /\ Throw(c, err)
                     /\ UNCHANGED <<pendingFetches, handle>>
  /\ UNCHANGED <<process, readable, disk, cacheFolderReset, opt, waitsOn, resp,
                 netCalls, orphan, faultsLeft>>

\* Wall clock. The instants kept are those around a change of second.
NextTime(t) == IF t % MsPerSec = 2 THEN t + MsPerSec - 3 ELSE t + 1

Tick ==
  /\ NextTime(now) <= MaxClock
  /\ now' = NextTime(now)
  /\ UNCHANGED <<version, launchTime, globalConfig, callerHeaders, fetchedUrls,
                 readable, disk, locals,
                 cacheFolderReset, pendingFetches, handle, pc, opt, waitsOn, resp,
                 netCalls, orphan, faultsLeft, result>>

\* ------------------------------------------------------------------------
\* Specifications
\* ------------------------------------------------------------------------
\* `counter`: calls are numbered in the order of their entry
NextCall(c) == \A d \in Calls : d < c <=> pc[d] # "idle"

Option(url, cacheFolder, refresh, inm) ==
  [url |-> url, cacheFolder |-> cacheFolder, refresh |-> refresh, inm |-> inm,
   ims |-> NoDate, resetCache |-> FALSE, logToConsole |-> FALSE,
   shared |-> FALSE]

\* A stored entry that the HTTP rules hold valid for ever (Expires far away)
\* and one they hold stale (no-cache)
FreshEntry ==
  Meta(200, 0, [NoHeaders EXCEPT !.etag = "e1", !.expires = 9, !.ctype = "text"])
StaleEntry ==
  Meta(200, 0, [NoHeaders EXCEPT !.etag = "e1", !.ctype = "text",
                                 !.cc = <<[param |-> "no-cache", arg |-> NaN]>>])

\* The module when it is loaded. The folder "F1" stands for '.cache'.
DefaultConfig ==
  [cacheFolder |-> "F1", resetCache |-> FALSE, refresh |-> Refresh("default", 0),
   logToConsole |-> FALSE]

InitProcess ==
  /\ globalConfig = DefaultConfig
  /\ fetchedUrls = [m \in Folders \X Urls |-> FALSE]
  /\ readable = [c \in Calls |-> "unread"]
  /\ callerHeaders = NoValidators
  /\ cacheFolderReset = [f \in Folders |-> FALSE]
  /\ pendingFetches = [u \in Urls |-> 0]
  /\ handle = [c \in Calls |-> NoHandle]
  /\ pc = [c \in Calls |-> "idle"]
  /\ opt = [c \in Calls |-> NoOpt]
  /\ waitsOn = [c \in Calls |-> 0]
  /\ headers = [c \in Calls |-> NoMeta]
  /\ remaining = [c \in Calls |-> 0]
  /\ resp = [c \in Calls |-> NoResp]
  /\ netCalls = [c \in Calls |-> 0]
  /\ orphan = [c \in Calls |-> "none"]
  /\ result = [c \in Calls |-> NoResult]

\* --- Spec: concurrent calls of both revisions, any interleaving of the
\* calls at their awaits, at most MaxFaults failures of the network or disk
ConcOptions ==
  { Option(u, "F1", Refresh("default", 0), inm) :
      u \in {"u1", "u2"}, inm \in {"", "e1"} }

InitStore ==
  /\ folder = [f \in Folders |-> "dir"]
  /\ \E e \in {NoMeta, FreshEntry, StaleEntry} :
       /\ meta = [s \in Slots |-> e]
       /\ body = [s \in Slots |-> IF e.kind = "ok" THEN "b0" ELSE NoFile]

Init ==
  /\ version \in {"v4", "v5"}
  /\ launchTime = 0
  /\ now = 0
  /\ InitStore
  /\ InitProcess
  /\ faultsLeft = MaxFaults

\* The steps of a call whose operations all succeed and whose request the
\* origin answers in full
OwnerExchange ==
  \/ \E c \in Calls : StatDone(c)
  \/ \E c \in Calls : ReadHeadersDone(c)
  \/ \E c \in Calls, r \in OriginFull : NetResponse(c, r)
  \/ \E c \in Calls : StreamDone(c)
  \/ \E c \in Calls : CloseEvent(c)
  \/ \E c \in Calls : WriteMetaDone(c, TRUE)
  \/ \E c \in Calls : ReadFromCacheDone(c)

\* and those of the calls that found a pending fetch
FullExchange ==
  \/ OwnerExchange
  \/ \E c \in Calls : PendingFetchIsOver(c)

\* The origin answers 304
NotModified ==
  \/ \E c \in Calls : NetResponse(c, Origin304)
  \/ \E c \in Calls : Write304Done(c, TRUE)

Completion == FullExchange \/ NotModified

Failure ==
  \/ \E c \in Calls, err \in NetErrors : NetFail(c, err)
  \/ \E c \in Calls : SleepDone(c)
  \/ \E c \in Calls : StreamReadFail(c)
  \/ \E c \in Calls : StreamWriteFail(c)
  \/ \E c \in Calls : WriteMetaDone(c, FALSE)
  \/ \E c \in Calls : Write304Done(c, FALSE)

Next ==
  \/ \E c \in Calls, o \in ConcOptions : NextCall(c) /\ Call(c, o)
  \/ \E c \in Calls : GetPendingFetchDone(c)
  \/ Completion
  \/ Failure

Spec == Init /\ [][Next]_vars

\* --- Spec5: concurrent calls of cacheFetch (v5) for one URL
Conc5Options ==
  { Option("u1", "F1", Refresh(mode, 0), inm) :
      mode \in {"default", "force"}, inm \in {"", "e1"} }

Init5 ==
  /\ version = "v5"
  /\ launchTime = 0
  /\ now = 0
  /\ InitStore
  /\ InitProcess
  /\ faultsLeft = MaxFaults

Next5 ==
  \/ \E c \in Calls, o \in Conc5Options : NextCall(c) /\ Call(c, o)
  \/ Completion
  \/ Failure

Spec5 == Init5 /\ [][Next5]_vars

\* Every operation a call awaits completes or fails in the end
StepOf(c) ==
  \/ StatDone(c) \/ PendingFetchIsOver(c) \/ ReadHeadersDone(c)
  \/ \E r \in OriginFull \cup {Origin304} : NetResponse(c, r)
  \/ StreamDone(c) \/ CloseEvent(c) \/ WriteMetaDone(c, TRUE)
  \/ Write304Done(c, TRUE) \/ ReadFromCacheDone(c) \/ SleepDone(c)

FairSpec5 == Spec5 /\ \A c \in Calls : WF_vars(StepOf(c))

\* Spec with the same condition, for both revisions: the continuation after
\* `await getPendingFetch()` of v4 runs as well
FairSpec ==
  Spec /\ \A c \in Calls : WF_vars(StepOf(c) \/ GetPendingFetchDone(c))

\* --- SeqSpec: calls one after the other while the clock advances, every
\* refresh mode, no failure of the network or disk
Sequential(c) == \A d \in Calls \ {c} : pc[d] \in {"idle", "done", "failed"}

SeqOptions ==
  { Option("u1", "F1", r, "") :
      r \in { Refresh("force", 0), Refresh("default", 0), Refresh("once", 0),
              Refresh("never", 0), Refresh("int", 0), Refresh("int", 1) } }

\* What the cache folder may hold for the URL when the process starts
InitSeqStore ==
  /\ folder = [f \in Folders |-> "dir"]
  /\ \E e \in {NoMeta, BadMeta, FreshEntry, StaleEntry} :
       /\ meta = [s \in Slots |-> e]
       /\ body = [s \in Slots |-> IF e.kind = "absent" THEN NoFile ELSE "b0"]

InitSeq ==
  /\ version \in {"v4", "v5"}
  /\ launchTime \in {0, 1}
  /\ now = launchTime
  /\ InitSeqStore
  /\ InitProcess
  /\ faultsLeft = 0

NextSeq ==
  \/ \E c \in Calls, o \in SeqOptions : NextCall(c) /\ Sequential(c) /\ Call(c, o)
  \/ \E c \in Calls : GetPendingFetchDone(c)
  \/ OwnerExchange
  \/ NotModified
  \/ Tick

SeqSpec == InitSeq /\ [][NextSeq]_vars

\* --- HttpSpec: calls in default mode one after the other while the clock
\* advances, over a stored entry whose Expires and Cache-Control headers
\* range over set, unset and unparseable values
NoCache == [param |-> "no-cache", arg |-> NaN]
MaxAge(n) == [param |-> "max-age", arg |-> n]
Public == [param |-> "public", arg |-> NaN]

\* max-age=1, a max-age whose value parseInt rejects, no-cache, and a
\* directive hasExpired does not look at
Directives == {NoCache, MaxAge(1), MaxAge(NaN), Public}

CacheControls ==
  {<<>>} \cup {<<a>> : a \in Directives} \cup {<<a, b>> : a, b \in Directives}

HttpEntries ==
  { Meta(200, 0, [NoHeaders EXCEPT !.etag = "e1", !.ctype = "text",
                                   !.expires = e, !.cc = cc]) :
      e \in {NoDate, BadDate, 0, 9}, cc \in CacheControls }

InitHttp ==
  /\ version \in {"v4", "v5"}
  /\ launchTime = 0
  /\ now = 0
  /\ folder = [f \in Folders |-> "dir"]
  /\ \E e \in HttpEntries :
       /\ meta = [s \in Slots |-> e]
       /\ body = [s \in Slots |-> "b0"]
  /\ InitProcess
  /\ faultsLeft = 0

NextHttp ==
  \/ \E c \in Calls :
       NextCall(c) /\ Sequential(c)
         /\ Call(c, Option("u1", "F1", Refresh("default", 0), ""))
  \/ \E c \in Calls : GetPendingFetchDone(c)
  \/ OwnerExchange
  \/ NotModified
  \/ Tick

HttpSpec == InitHttp /\ [][NextHttp]_vars

\* --- EntrySpec: calls one after the other in every refresh mode, over a
\* store that holds nothing, a complete entry, a metadata record without its
\* body file or a body file without its metadata record; the origin answers
\* 200, 404 or 204
EntryOptions ==
  { Option("u1", "F1", r, "") :
      r \in { Refresh("force", 0), Refresh("default", 0), Refresh("once", 0),
              Refresh("never", 0), Refresh("int", 1) } }

InitEntry ==
  /\ version \in {"v4", "v5"}
  /\ launchTime = 0
  /\ now = 0
  /\ folder = [f \in Folders |-> "dir"]
  /\ \E e \in {NoMeta, FreshEntry}, b \in {NoFile, "b0"} :
       /\ meta = [s \in Slots |-> e]
       /\ body = [s \in Slots |-> b]
  /\ InitProcess
  /\ faultsLeft = 0

NextEntry ==
  \/ \E c \in Calls, o \in EntryOptions : NextCall(c) /\ Sequential(c) /\ Call(c, o)
  \/ \E c \in Calls : GetPendingFetchDone(c)
  \/ \E c \in Calls : StatDone(c)
  \/ \E c \in Calls : ReadHeadersDone(c)
  \/ \E c \in Calls, r \in OriginAny : NetResponse(c, r)
  \/ \E c \in Calls : StreamDone(c)
  \/ \E c \in Calls : CloseEvent(c)
  \/ \E c \in Calls : WriteMetaDone(c, TRUE)
  \/ \E c \in Calls : ReadFromCacheDone(c)
  \/ NotModified

EntrySpec == InitEntry /\ [][NextEntry]_vars

\* --- ResetSpec: concurrent calls of cacheFetch (v5) for one URL, with and
\* without resetCache, on two cache folders
ResetOptions ==
  { [Option("u1", f, Refresh("default", 0), "") EXCEPT !.resetCache = r] :
      f \in Folders, r \in BOOLEAN }

InitReset ==
  /\ version = "v5"
  /\ launchTime = 0
  /\ now = 0
  /\ InitStore
  /\ InitProcess
  /\ faultsLeft = 0

NextReset ==
  \/ \E c \in Calls, o \in ResetOptions : NextCall(c) /\ Call(c, o)
  \/ \E c \in Calls : RimrafDone(c)
  \/ Completion

ResetSpec == InitReset /\ [][NextReset]_vars

\* --- RetrySpec: calls one after the other whose network attempts may
\* fail, as many times as one call can make attempts
InitRetry ==
  /\ version \in {"v4", "v5"}
  /\ launchTime = 0
  /\ now = 0
  /\ InitStore
  /\ InitProcess
  /\ faultsLeft = MaxAttempts + 1

NextRetry ==
  \/ \E c \in Calls :
       NextCall(c) /\ Sequential(c)
         /\ Call(c, Option("u1", "F1", Refresh("default", 0), ""))
  \/ \E c \in Calls : GetPendingFetchDone(c)
  \/ OwnerExchange
  \/ NotModified
  \/ \E c \in Calls, err \in AnyNetError : NetFail(c, err)
  \/ \E c \in Calls : SleepDone(c)

RetrySpec == InitRetry /\ [][NextRetry]_vars

\* --- ConfigSpec: calls of cacheFetch (v5) one after the other, each with
\* any subset of the parameters in its options, between calls of setParameter
OptionNames ==
  {"resetCache", "refresh", "logToConsole", "forceRefresh", "avoidNetworkRequests"}

RefreshSettings == {Refresh("default", 0), Refresh("force", 0), Refresh("never", 0)}

\* The values an own property may have; a property that is not given has none
ValuesOf(name, has, values, none) == IF name \in has THEN values ELSE {none}

ConfigOptions ==
  UNION { { [NoOptions EXCEPT !.cacheFolder = f, !.has = has, !.resetCache = rc,
                              !.refresh = r, !.logToConsole = l,
                              !.forceRefresh = fr, !.avoidNetworkRequests = a] :
              f \in {"", "F2"},
              rc \in ValuesOf("resetCache", has, BOOLEAN, FALSE),
              r \in ValuesOf("refresh", has, {Refresh("default", 0),
                                               Refresh("never", 0)},
                              Refresh("default", 0)),
              l \in ValuesOf("logToConsole", has, BOOLEAN, FALSE),
              fr \in ValuesOf("forceRefresh", has, BOOLEAN, FALSE),
              a \in ValuesOf("avoidNetworkRequests", has, {TRUE}, FALSE) } :
          has \in SUBSET OptionNames }

InitConfig ==
  /\ version = "v5"
  /\ launchTime = 0
  /\ now = 0
  /\ folder = [f \in Folders |-> "dir"]
  /\ meta = [s \in Slots |-> FreshEntry]
  /\ body = [s \in Slots |-> "b0"]
  /\ InitProcess
  /\ faultsLeft = 0

NextConfig ==
  \/ \E f \in Folders : setParameter("cacheFolder", f)
  \/ \E b \in BOOLEAN : setParameter("resetCache", b)
  \/ \E r \in RefreshSettings : setParameter("refresh", r)
  \/ \E b \in BOOLEAN : setParameter("logToConsole", b)
  \/ \E c \in Calls :
       /\ NextCall(c) /\ Sequential(c)
       /\ \E o \in ConfigOptions : Call(c, Config(o, globalConfig))
  \/ \E c \in Calls : RimrafDone(c)
  \/ OwnerExchange
  \/ NotModified

ConfigSpec == InitConfig /\ [][NextConfig]_vars

\* --- NoRecordSpec: calls one after the other, in every refresh mode, with
\* and without an If-None-Match of their own, over a store whose .headers
\* file is missing or is not JSON; no failure of the network or disk
NoRecordOptions ==
  { Option("u1", "F1", r, inm) :
      r \in { Refresh("force", 0), Refresh("default", 0), Refresh("once", 0),
              Refresh("never", 0), Refresh("int", 1) },
      inm \in {"", "e1"} }

InitNoRecord ==
  /\ version \in {"v4", "v5"}
  /\ launchTime = 0
  /\ now = 0
  /\ folder = [f \in Folders |-> "dir"]
  /\ \E e \in {NoMeta, BadMeta} :
       /\ meta = [s \in Slots |-> e]
       /\ body = [s \in Slots |-> IF e.kind = "absent" THEN NoFile ELSE "b0"]
  /\ InitProcess
  /\ faultsLeft = 0

NextNoRecord ==
  \/ \E c \in Calls, o \in NoRecordOptions :
       NextCall(c) /\ Sequential(c) /\ Call(c, o)
  \/ \E c \in Calls : GetPendingFetchDone(c)
  \/ OwnerExchange
  \/ NotModified

NoRecordSpec == InitNoRecord /\ [][NextNoRecord]_vars

\* --- FolderSpec: concurrent calls of cacheFetch (v5) for one URL on cache
\* folders that exist, do not exist, or whose path is that of a file
FolderOptions ==
  { Option("u1", f, Refresh("default", 0), "") : f \in Folders }

InitFolder ==
  /\ version = "v5"
  /\ launchTime = 0
  /\ now = 0
  /\ folder \in [Folders -> {"absent", "dir", "file"}]
  /\ meta = [s \in Slots |-> NoMeta]
  /\ body = [s \in Slots |-> NoFile]
  /\ InitProcess
  /\ faultsLeft = 0

NextFolder ==
  \/ \E c \in Calls, o \in FolderOptions : NextCall(c) /\ Call(c, o)
  \/ \E c \in Calls : MkdirDone(c)
  \/ FullExchange

FolderSpec == InitFolder /\ [][NextFolder]_vars

\* --- ValidatorSpec: calls one after the other, with and without validators
\* of their own, over a stored entry with and without an etag and a
\* last-modified; no failure of the network or disk
ValidatorOptions ==
  { [Option("u1", "F1", r, inm) EXCEPT !.ims = ims] :
      r \in {Refresh("force", 0), Refresh("default", 0)},
      inm \in {"", "e1", "e2"}, ims \in {NoDate, 3} }

ValidatorEntries ==
  { Meta(200, 0, [NoHeaders EXCEPT !.etag = etag, !.lm = lm, !.ctype = "text"]) :
      etag \in {"", "e1"}, lm \in {NoDate, 5} }

InitValidator ==
  /\ version \in {"v4", "v5"}
  /\ launchTime = 0
  /\ now = 0
  /\ folder = [f \in Folders |-> "dir"]
  /\ \E e \in {NoMeta} \cup ValidatorEntries :
       /\ meta = [s \in Slots |-> e]
       /\ body = [s \in Slots |-> IF e.kind = "ok" THEN "b0" ELSE NoFile]
  /\ InitProcess
  /\ faultsLeft = 0

NextValidator ==
  \/ \E c \in Calls, o \in ValidatorOptions :
       NextCall(c) /\ Sequential(c) /\ Call(c, o)
  \/ \E c \in Calls : GetPendingFetchDone(c)
  \/ OwnerExchange
  \/ NotModified
  \/ \E c \in Calls : NetResponse(c, Origin304Full)

ValidatorSpec == InitValidator /\ [][NextValidator]_vars

\* --- FetchedSpec: concurrent calls of fetch (v1) for one URL and one cache
\* folder, with forceRefresh, with avoidNetworkRequests or with neither; no
\* failure of the network or disk
Fetch1Options ==
  { Option("u1", "F1", Refresh(mode, 0), "") : mode \in {"default", "force", "never"} }

\* An entry stored by an earlier process of v1
Entry1 == Meta(200, NoDate, [NoHeaders EXCEPT !.etag = "e1", !.ctype = "text"])

InitFetched ==
  /\ version = "v1"
  /\ launchTime = 0
  /\ now = 0
  /\ folder = [f \in Folders |-> "dir"]
  /\ \E e \in {NoMeta, Entry1} :
       /\ meta = [s \in Slots |-> e]
       /\ body = [s \in Slots |-> IF e.kind = "ok" THEN "b0" ELSE NoFile]
  /\ InitProcess
  /\ faultsLeft = 0

NextFetched ==
  \/ \E c \in Calls, o \in Fetch1Options : NextCall(c) /\ Call(c, o)
  \/ \E c \in Calls : StatDone(c)
  \/ \E c \in Calls : GetPendingFetchDone1(c)
  \/ \E c \in Calls : PendingFetchIsOver(c)
  \/ \E c \in Calls : ReadHeadersDone1(c)
  \/ \E c \in Calls, r \in OriginFull : NetResponse(c, r)
  \/ \E c \in Calls : NotModified1(c)
  \/ \E c \in Calls : StreamDone(c)
  \/ \E c \in Calls : CloseEvent1(c)
  \/ \E c \in Calls : WriteMetaDone(c, TRUE)
  \/ \E c \in Calls : ReadFromCacheDone1(c)

FetchedSpec == InitFetched /\ [][NextFetched]_vars

\* --- Validator5Spec: ValidatorSpec for cacheFetch (v5) alone
InitValidator5 == InitValidator /\ version = "v5"

NextValidator5 ==
  \/ \E c \in Calls, o \in ValidatorOptions :
       NextCall(c) /\ Sequential(c) /\ Call(c, o)
  \/ OwnerExchange
  \/ NotModified
  \/ \E c \in Calls : NetResponse(c, Origin304Full)

Validator5Spec == InitValidator5 /\ [][NextValidator5]_vars

\* --- ReuseSpec: calls one after the other for two URLs, all given the
\* same options object, which holds no validator at first; an entry with
\* validators is stored for "u1", none or one without validators for "u2"
CallReusing(c, u, r) ==
  Call(c, [Option(u, "F1", r, callerHeaders.inm)
             EXCEPT !.ims = callerHeaders.ims, !.shared = TRUE])

InitReuse ==
  /\ version \in {"v4", "v5"}
  /\ launchTime = 0
  /\ now = 0
  /\ folder = [f \in Folders |-> "dir"]
  /\ \E e1 \in ValidatorEntries,
        e2 \in {NoMeta, Meta(200, 0, [NoHeaders EXCEPT !.ctype = "text"])} :
       /\ meta = [s \in Slots |-> IF s[2] = filenamify("u1") THEN e1 ELSE e2]
       /\ body = [s \in Slots |-> IF s[2] = filenamify("u1") \/ e2.kind = "ok"
                                   THEN "b0" ELSE NoFile]
  /\ InitProcess
  /\ faultsLeft = 0

NextReuse ==
  \/ \E c \in Calls, u \in {"u1", "u2"},
         r \in {Refresh("force", 0), Refresh("default", 0)} :
       NextCall(c) /\ Sequential(c) /\ CallReusing(c, u, r)
  \/ \E c \in Calls : GetPendingFetchDone(c)
  \/ OwnerExchange
  \/ NotModified

ReuseSpec == InitReuse /\ [][NextReuse]_vars

\* --- NotModifiedSpec: calls of cacheFetch (v5) one after the other that
\* are served from the cache (refresh 'never'), with and without
\* If-None-Match and If-Modified-Since, over an entry with or without an
\* etag, weak or strong, and a last-modified
NotModifiedOptions ==
  { [Option("u1", "F1", Refresh("never", 0), inm) EXCEPT !.ims = ims] :
      inm \in {"", ",", "e1", "W/e1", "e2", "e2, e1", "e2, W/e1"},
      ims \in {NoDate, BadDate, 3, 5} }

NotModifiedEntries ==
  { Meta(200, 0, [NoHeaders EXCEPT !.etag = etag, !.lm = lm, !.ctype = "text"]) :
      etag \in {"", "e1", "W/e1"}, lm \in {NoDate, BadDate, 4} }

InitNotModified ==
  /\ version = "v5"
  /\ launchTime = 0
  /\ now = 0
  /\ folder = [f \in Folders |-> "dir"]
  /\ \E e \in NotModifiedEntries :
       /\ meta = [s \in Slots |-> e]
       /\ body = [s \in Slots |-> "b0"]
  /\ InitProcess
  /\ faultsLeft = 0

NextNotModified ==
  \/ \E c \in Calls, o \in NotModifiedOptions :
       NextCall(c) /\ Sequential(c) /\ Call(c, o)
  \/ \E c \in Calls : StatDone(c)
  \/ \E c \in Calls : ReadHeadersDone(c)
  \/ \E c \in Calls : ReadFromCacheDone(c)

NotModifiedSpec == InitNotModified /\ [][NextNotModified]_vars

\* --- AgeSpec: calls in the modes 'once' and integer one after the other,
\* long after the module was loaded, over a stored entry whose `received`
\* is a date, is not set or is not a date, with or without a Date header
AgeOptions ==
  { Option("u1", "F1", r, "") :
      r \in {Refresh("once", 0), Refresh("int", 0), Refresh("int", 1)} }

AgeEntries ==
  { Meta(200, received, [NoHeaders EXCEPT !.etag = "e1", !.ctype = "text",
                                          !.date = date]) :
      received \in {NoDate, BadDate, 0, 1}, date \in {NoDate, 2} }

InitAge ==
  /\ version \in {"v4", "v5"}
  /\ launchTime = 1
  /\ now = MsPerSec + 1
  /\ folder = [f \in Folders |-> "dir"]
  /\ \E e \in AgeEntries :
       /\ meta = [s \in Slots |-> e]
       /\ body = [s \in Slots |-> "b0"]
  /\ InitProcess
  /\ faultsLeft = 0

NextAge ==
  \/ \E c \in Calls, o \in AgeOptions : NextCall(c) /\ Sequential(c) /\ Call(c, o)
  \/ \E c \in Calls : GetPendingFetchDone(c)
  \/ OwnerExchange
  \/ NotModified
  \/ Tick

AgeSpec == InitAge /\ [][NextAge]_vars

\* --- StreamSpec: calls one after the other, each entered after the calls
\* before it have returned; the caller reads the body of a response at any
\* time after the call returned it. No failure of the network or disk
StreamOptions ==
  { Option("u1", "F1", Refresh(mode, 0), "") : mode \in {"default", "force"} }

InitStream ==
  /\ version \in {"v4", "v5"}
  /\ launchTime = 0
  /\ now = 0
  /\ InitStore
  /\ InitProcess
  /\ faultsLeft = 0

NextStream ==
  \/ \E c \in Calls, o \in StreamOptions :
       NextCall(c) /\ Sequential(c) /\ Call(c, o)
  \/ \E c \in Calls : GetPendingFetchDone(c)
  \/ OwnerExchange
  \/ NotModified
  \/ \E c \in Calls : ReadBody(c)

StreamSpec == InitStream /\ [][NextStream]_vars

\* --- KeySpec: concurrent calls of cacheFetch (v5) for two URLs that have
\* one cache key, no failure of the network or disk
KeyOptions ==
  { Option(u, "F1", Refresh(mode, 0), "") :
      u \in {"u1", "u1b"}, mode \in {"default", "force"} }

InitKey ==
  /\ version = "v5"
  /\ launchTime = 0
  /\ now = 0
  /\ InitStore
  /\ InitProcess
  /\ faultsLeft = 0

NextKey ==
  \/ \E c \in Calls, o \in KeyOptions : NextCall(c) /\ Call(c, o)
  \/ Completion

KeySpec == InitKey /\ [][NextKey]_vars

\* --- SimulSpec: NCalls calls for one URL entered in the same turn, the same
\* options without validators, nothing stored, no failure of the network or
\* disk. The calls overlap: the stat of the cache folder answers every call
\* before the origin answers the first request.
InitSimul ==
  /\ version \in {"v4", "v5"}
  /\ launchTime = 0
  /\ now = 0
  /\ folder = [f \in Folders |-> "dir"]
  /\ meta = [s \in Slots |-> NoMeta]
  /\ body = [s \in Slots |-> NoFile]
  /\ InitProcess
  /\ faultsLeft = 0

EnterAll ==
  /\ \A c \in Calls : pc[c] = "idle"
  /\ \E o \in SeqOptions :
       /\ opt' = [c \in Calls |-> o]
       /\ pc' = [c \in Calls |-> "stat"]
  /\ UNCHANGED <<fixed, disk, locals, cacheFolderReset, pendingFetches, handle,
                 waitsOn, resp, netCalls, orphan, faultsLeft, result>>

FolderChecked == \A c \in Calls : pc[c] \notin {"idle", "rimraf", "stat", "mkdir"}

NextSimul ==
  \/ EnterAll
  \/ \E c \in Calls : StatDone(c)
  \/ \E c \in Calls : GetPendingFetchDone(c)
  \/ \E c \in Calls : PendingFetchIsOver(c)
  \/ \E c \in Calls : ReadHeadersDone(c)
  \/ \E c \in Calls, r \in OriginFull : FolderChecked /\ NetResponse(c, r)
  \/ \E c \in Calls : StreamDone(c)
  \/ \E c \in Calls : CloseEvent(c)
  \/ \E c \in Calls : WriteMetaDone(c, TRUE)
  \/ \E c \in Calls : ReadFromCacheDone(c)

SimulSpec == InitSimul /\ [][NextSimul]_vars

\* ------------------------------------------------------------------------
\* Claims
\* ------------------------------------------------------------------------
RECURSIVE Total(_, _)
Total(f, S) == IF S = {} THEN 0
               ELSE LET c == CHOOSE x \in S : TRUE IN f[c] + Total(f, S \ {c})

Over(c) == pc[c] \in {"done", "failed"}

C2_OneExchangePerUrl ==
  \A c, d \in Calls :
    (c # d /\ InExchange(c) /\ InExchange(d)) => opt[c].url # opt[d].url

\* A call of v4 that went through `await getPendingFetch()` is in its network
\* exchange while another call for the same URL waits for it
C2_Witness ==
  \E c, d \in Calls :
    /\ version = "v4" /\ InExchange(c)
    /\ opt[d].url = opt[c].url /\ pc[d] = "waiting" /\ waitsOn[d] = c

\* C3: a handle a call registered is in the end removed from pendingFetches,
\* on the success path and on every failure path, and the call that owns it
\* returns or throws, provided every awaited operation completes or fails.
C3_HandleEventuallyRemoved ==
  \A c \in Calls :
    (handle[c].state = "pending")
      ~> (handle[c].state # "pending" /\ pendingFetches[opt[c].url] # c /\ Over(c))

\* The read of the response body failed: the handle stays in the map and a
\* second call waits on it
C3_Witness ==
  \E c, d \in Calls :
    /\ pc[c] = "hung" /\ pendingFetches[opt[c].url] = c
    /\ pc[d] = "waiting" /\ waitsOn[d] = c

\* C4: when the call that owns a pending fetch fails with error E, every call
\* that waited on that pending fetch fails with E too, and none of them
\* returns a response.
C4_WaitersFailWithOwner ==
  \A c, d \in Calls :
    (waitsOn[d] = c /\ pc[c] = "failed")
      => /\ handle[c] = [state |-> "rejected", err |-> result[c].err]
         /\ pc[d] \in {"waiting", "failed"}
         /\ pc[d] = "failed" => result[d] = result[c]

C4_Witness ==
  \E c, d \in Calls :
    /\ waitsOn[d] = c /\ pc[c] = "failed" /\ pc[d] = "failed"
    /\ result[d].kind = "err" /\ result[d].err = result[c].err
    /\ meta[Slot(d)].kind = "ok"

\* C5: when the call that owns a pending fetch completes successfully, every
\* call that waited on it returns a response served from the cache store,
\* whatever validators the calls carry and whatever status the origin gave.
C5_WaitersServedFromCache ==
  \A c, d \in Calls :
    (waitsOn[d] = c /\ pc[c] = "done" /\ Over(d))
      => result[d].kind = "ok"

\* The owner sent If-None-Match with nothing stored and handed the 304 of the
\* origin over; the call that waited on it failed to read the cache
C5_Witness ==
  \E c, d \in Calls :
    /\ waitsOn[d] = c /\ pc[c] = "done" /\ result[c].status = 304
    /\ pc[d] = "failed" /\ result[d].err = "ENOENT"

\* C6: in mode 'once', two calls for one URL made one after the other in one
\* process cause at most one network request in total, whatever the launch
\* time and the times of the calls.
C6_OnceAtMostOneRequest ==
  \A c, d \in Calls :
    ( /\ d = c + 1 /\ Over(c) /\ Over(d)
      /\ opt[c].url = opt[d].url
      /\ opt[c].refresh.mode = "once" /\ opt[d].refresh.mode = "once" )
      => netCalls[c] + netCalls[d] <= 1

\* The first call stored a `received` that reads back as earlier than
\* launchTime, and the second call went to the network again
C6_Witness ==
  /\ opt[1].refresh.mode = "once" /\ opt[2].refresh.mode = "once"
  /\ pc[1] = "done" /\ netCalls[1] = 1 /\ pc[2] = "net"
  /\ headers[2].kind = "ok" /\ Lt(ReceivedTime(headers[2]), launchTime)

\* C7: with an integer refresh N, the entry a call writes at time T, as it
\* is stored in the .headers file and read back, is judged fresh at
\* T + N*1000 - 1 and expired at T + N*1000 + 1.
C7_IntegerRefreshBoundary ==
  [][ \A c \in Calls :
        (pc[c] = "closing" /\ pc'[c] = "writeMeta")
          => \A n \in {0, 1} :
               /\ ~hasExpired(headers'[c], Refresh("int", n),
                              now + n * MsPerSec - 1, launchTime)
               /\ hasExpired(headers'[c], Refresh("int", n),
                             now + n * MsPerSec + 1, launchTime) ]_vars

\* The entry was written by a call of this process, hence at launchTime or
\* later, and a call with refresh 1 made no more than a second after
\* launchTime takes it for expired
C7_Witness ==
  \E c \in Calls :
    /\ opt[c].refresh = Refresh("int", 1) /\ pc[c] = "net"
    /\ headers[c].kind = "ok" /\ launchTime = 1 /\ now <= launchTime + MsPerSec
    /\ \E d \in Calls : d < c /\ netCalls[d] = 1 /\ pc[d] = "done"

\* C8: in mode 'never', a call that read a metadata record starts no network
\* exchange, whatever the age and the headers of the entry, and the call
\* that made no request returns the response built from the store.
C8_NeverServesStoredEntry ==
  \A c \in Calls :
    opt[c].refresh.mode = "never"
      => /\ pc[c] \in {"net", "sleep"} => headers[c].kind # "ok"
         /\ (pc[c] = "done" /\ netCalls[c] = 0)
              => result[c].kind = "ok" /\ result[c].hit

\* An entry the HTTP rules hold stale, a second old, served without a request
C8_Witness ==
  \E c \in Calls :
    /\ opt[c].refresh.mode = "never" /\ pc[c] = "done" /\ netCalls[c] = 0
    /\ meta[Slot(c)] = StaleEntry /\ now >= MsPerSec /\ result[c].hit

\* C9: in every refresh mode, a call that owns the pending fetch and finds
\* no readable metadata record goes to the network.
C9_AbsentIsExpired ==
  [][ \A c \in Calls :
        ( /\ pc[c] = "readHeaders" /\ pc'[c] # "readHeaders"
          /\ meta[Slot(c)].kind # "ok" )
          => pc'[c] = "net" /\ netCalls'[c] = netCalls[c] + 1 ]_vars

\* A call in mode 'never' that found a .headers file JSON.parse rejects is
\* waiting for the origin
C9_Witness ==
  \E c \in Calls :
    /\ opt[c].refresh.mode = "never" /\ pc[c] = "net" /\ netCalls[c] = 1
    /\ meta[Slot(c)].kind = "bad" /\ headers[c].kind = "absent"

\* C10: in mode 'force', a call that did not wait on a pending fetch has made
\* a network request before it reads the cache or returns.
C10_ForceAlwaysFetches ==
  \A c \in Calls :
    ( /\ opt[c].refresh.mode = "force" /\ waitsOn[c] = 0
      /\ pc[c] \in {"readFromCache", "done"} )
      => netCalls[c] >= 1

\* A call in mode 'force' is waiting for the origin although the entry it
\* read was written by an earlier call of this process and is still valid
C10_Witness ==
  \E c \in Calls :
    /\ opt[c].refresh.mode = "force" /\ waitsOn[c] = 0 /\ pc[c] = "net"
    /\ headers[c].kind = "ok" /\ headers[c].h.cc # <<>>
    /\ ~Lt(ReceivedTime(headers[c]), launchTime)
    /\ ~hasExpired(headers[c], Refresh("default", 0), now, launchTime)
    /\ \E d \in Calls : d # c /\ pc[d] = "done" /\ netCalls[d] = 1

\* The entry an owner that made no request found fresh
JudgedFresh(c) ==
  /\ pc[c] \in {"readFromCache", "done"}
  /\ waitsOn[c] = 0 /\ netCalls[c] = 0

\* The Cache-Control header holds a directive with this name
HasDirective(cc, param) == \E i \in 1..Len(cc) : cc[i].param = param

\* C11: in default mode an entry is judged fresh only on a verdict of a
\* header that parses: an Expires that is a date or, without Expires, a
\* max-age that is a number; never when Expires or max-age is unparseable or
\* when no header gives a verdict.
C11_UnparseableIsExpired ==
  \A c \in Calls :
    (JudgedFresh(c) /\ opt[c].refresh.mode = "default")
      => LET h == meta[Slot(c)].h IN
         /\ h.expires # BadDate
         /\ \A i \in 1..Len(h.cc) : h.cc[i] # MaxAge(NaN)
         /\ h.expires # NoDate \/ HasDirective(h.cc, "max-age")

\* An entry whose Expires is not a date is served without a request
C11_Witness ==
  \E c \in Calls :
    /\ JudgedFresh(c) /\ opt[c].refresh.mode = "default" /\ pc[c] = "done"
    /\ meta[Slot(c)].h.expires = BadDate /\ result[c].hit

\* C12: in default mode an entry without Expires whose Cache-Control holds
\* no-cache is judged expired, wherever no-cache stands among the directives.
C12_NoCacheAnyPosition ==
  \A c \in Calls :
    (JudgedFresh(c) /\ opt[c].refresh.mode = "default")
      => LET h == meta[Slot(c)].h IN
         ~(h.expires = NoDate /\ HasDirective(h.cc, "no-cache"))

\* `max-age=1, no-cache` served without a request
C12_Witness ==
  \E c \in Calls :
    /\ JudgedFresh(c) /\ pc[c] = "done" /\ result[c].hit
    /\ meta[Slot(c)].h.expires = NoDate
    /\ meta[Slot(c)].h.cc = <<MaxAge(1), NoCache>>

\* C13: whatever the status, the headers and the body of a network response,
\* the entry persisted holds them, and reading the entry back gives a
\* response with the same status, the same headers and the same body.
C13_RoundTrip ==
  [][ \A c \in Calls :
        /\ (pc[c] = "writeMeta" /\ pc'[c] # "writeMeta")
             => /\ meta'[Slot(c)].status = resp[c].status
                /\ meta'[Slot(c)].h = resp[c].h
                /\ body'[Slot(c)] = resp[c].body
        /\ (pc[c] = "readFromCache" /\ pc'[c] # "readFromCache" /\ netCalls[c] > 0)
             => /\ pc'[c] = "done"
                /\ result'[c].status = meta[Slot(c)].status
                /\ result'[c].h = meta[Slot(c)].h
                /\ result'[c].body = body[Slot(c)] ]_vars

\* A 204 of the origin is stored and the call that stored it fails when it
\* builds its response from the entry
C13_Witness ==
  \E c \in Calls :
    /\ pc[c] = "failed" /\ result[c].err = "TypeError" /\ netCalls[c] = 1
    /\ meta[Slot(c)].kind = "ok" /\ meta[Slot(c)].status = 204

\* C20: an entry that has a metadata record but no body file, or a body file
\* but no metadata record, counts as absent in every refresh mode: no owner
\* takes it for fresh and no response is built from it.
C20_IncompleteIsAbsent ==
  \A c \in Calls :
    /\ JudgedFresh(c)
         => (meta[Slot(c)].kind = "ok" <=> body[Slot(c)] # NoFile)
    /\ (pc[c] = "done" /\ result[c].hit) => result[c].body # NoFile

\* A metadata record without a body file gave a response with the stored
\* status and headers whose body stream has no file to read
C20_Witness ==
  \E c \in Calls :
    /\ pc[c] = "done" /\ netCalls[c] = 0 /\ result[c].hit
    /\ result[c].status = 200 /\ result[c].body = NoFile
    /\ meta[Slot(c)].kind = "ok" /\ body[Slot(c)] = NoFile

\* C14: when the origin answers 304 to the revalidation of a stored entry,
\* the record written has `received` set to the time of the revalidation (as
\* toUTCString gives it) and the stored status, the body file is left as it
\* is, and the call, which sent no validator of its own, returns the stored
\* status and body, not 304.
C14_RevalidatedEntry ==
  [][ \A c \in Calls :
        /\ (pc[c] = "net" /\ pc'[c] = "write304")
             => /\ headers'[c].received = ToUTCString(now)
                /\ headers'[c].status = headers[c].status
        /\ (pc[c] = "write304" /\ pc'[c] # "write304")
             => /\ pc'[c] = "readFromCache"
                /\ meta'[Slot(c)].received = headers[c].received
                /\ meta'[Slot(c)].status = meta[Slot(c)].status
                /\ body' = body
        /\ (pc[c] = "readFromCache" /\ pc'[c] # "readFromCache")
             => /\ pc'[c] = "done"
                /\ result'[c].status = meta[Slot(c)].status
                /\ result'[c].status # 304
                /\ result'[c].body = body[Slot(c)] ]_vars

\* A stale entry of an earlier process was revalidated a second after the
\* launch: the call returned the stored 200 and body, `received` moved on
C14_Witness ==
  \E c \in Calls :
    /\ pc[c] = "done" /\ netCalls[c] = 1 /\ opt[c].refresh.mode = "default"
    /\ result[c].status = 200 /\ result[c].body = "b0"
    /\ body[Slot(c)] = "b0" /\ meta[Slot(c)].received = 1
    /\ meta[Slot(c)].h.etag = "e1"

\* C15: a call whose If-None-Match equals the stored etag, over an entry the
\* HTTP rules hold fresh, makes no request and returns 304 with no body and
\* none of the headers a 304 does not carry. Stated on the two steps that
\* read the entry: the freshness test goes on to readFromCache without a
\* request, and readFromCache of a call that made none answers the 304.
C15_CacheAware304 ==
  [][ \A c \in Calls :
        ( /\ waitsOn[c] = 0 /\ netCalls[c] = 0
          /\ opt[c].refresh.mode = "default"
          /\ opt[c].inm # "" /\ opt[c].inm = meta[Slot(c)].h.etag
          /\ meta[Slot(c)] = FreshEntry )
          => /\ ( pc[c] = "readHeaders" /\ pc'[c] # "readHeaders" )
                  => /\ pc'[c] = "readFromCache"
                     /\ netCalls'[c] = 0
             /\ ( pc[c] = "readFromCache" /\ pc'[c] # "readFromCache" )
                  => /\ pc'[c] = "done" /\ netCalls'[c] = 0
                     /\ result'[c].kind = "ok" /\ result'[c].status = 304
                     /\ result'[c].body = "" /\ ~result'[c].hit
                     /\ result'[c].h = Keep304(FreshEntry.h)
                     /\ result'[c].h.ctype = "" ]_vars

C15_Witness ==
  \E c \in Calls :
    /\ pc[c] = "done" /\ waitsOn[c] = 0 /\ netCalls[c] = 0
    /\ opt[c].inm = "e1" /\ meta[Slot(c)] = FreshEntry
    /\ result[c].status = 304 /\ result[c].h.etag = "e1"

\* C16: a call that sent validators of its own, found nothing stored and
\* gets a 304 from the origin returns that 304 as it is, and the step
\* creates neither a body file nor a metadata record.
C16_PassThrough304 ==
  [][ \A c \in Calls :
        ( /\ pc[c] = "net" /\ isRequestCacheAware(opt[c])
          /\ headers[c].kind # "ok"
          /\ pc'[c] \notin {"net", "stream", "hung", "sleep"}
          /\ faultsLeft' = faultsLeft )
          => /\ pc'[c] = "done"
             /\ result'[c] = [NoResult EXCEPT !.kind = "ok", !.status = 304,
                                              !.h = Origin304.h]
             /\ meta' = meta /\ body' = body ]_vars

C16_Witness ==
  \E c \in Calls :
    /\ pc[c] = "done" /\ netCalls[c] = 1 /\ opt[c].inm = "e1"
    /\ result[c].status = 304 /\ result[c].h = Origin304.h
    /\ meta[Slot(c)].kind = "absent" /\ body[Slot(c)] = NoFile

\* C17: of the calls with resetCache on one cache folder, whether they
\* follow or overlap one another, only the first clears the folder: a call
\* starts the clearing only if no earlier call with resetCache on that folder
\* exists, and entries disappear only when such a clearing ends.
C17_ResetOnce ==
  [][ /\ \A c \in Calls :
           (pc[c] = "idle" /\ pc'[c] = "rimraf")
             => \A d \in Calls \ {c} :
                  ~( /\ pc[d] # "idle" /\ opt[d].resetCache
                     /\ opt[d].cacheFolder = opt'[c].cacheFolder )
      /\ \A s \in Slots :
           (meta[s].kind # "absent" /\ meta'[s].kind = "absent")
             => \E c \in Calls :
                  /\ pc[c] = "rimraf" /\ pc'[c] = "stat"
                  /\ opt[c].cacheFolder = s[1] ]_vars

\* Two calls with resetCache on the same folder are over; what the first
\* stored after its reset is still there
C17_Witness ==
  \E c, d \in Calls :
    /\ c < d /\ pc[c] = "done" /\ pc[d] = "done"
    /\ opt[c].resetCache /\ opt[d].resetCache
    /\ opt[c].cacheFolder = opt[d].cacheFolder
    /\ netCalls[c] = 1 /\ netCalls[d] = 0 /\ waitsOn[d] = 0
    /\ meta[Slot(c)].kind = "ok"

\* C18: a call invokes the network primitive at most MaxAttempts + 1 = 4
\* times; it fails with a network error only on the failure of its 4th
\* attempt (or, in v5, on an abort) and with the error of that attempt; after
\* a failure that is not the last it sleeps and tries again, and a call whose
\* 4th attempt is answered returns the response.
C18_RetryBudget ==
  [][ \A c \in Calls :
        /\ netCalls'[c] <= MaxAttempts + 1
        /\ (pc[c] = "net" /\ pc'[c] = "failed")
             => /\ NetFail(c, result'[c].err)
                /\ \/ netCalls[c] = MaxAttempts + 1
                   \/ version = "v5" /\ result'[c].err = "AbortError"
        /\ (pc[c] = "sleep" /\ pc'[c] # "sleep")
             => pc'[c] = "net" /\ netCalls'[c] = netCalls[c] + 1
        /\ (pc'[c] = "done" /\ netCalls'[c] = MaxAttempts + 1)
             => result'[c].kind = "ok" /\ result'[c].hit ]_vars

\* Three attempts failed, the fourth was answered, the call returned
C18_Witness ==
  \E c \in Calls :
    /\ pc[c] = "done" /\ netCalls[c] = MaxAttempts + 1
    /\ result[c].kind = "ok" /\ faultsLeft = 1

\* C19: a network attempt that fails with an abort error makes the call
\* fail with that error at once, with no sleep and no further attempt.
C19_AbortShortCircuits ==
  [][ \A c \in Calls :
        (pc[c] = "net" /\ NetFail(c, "AbortError"))
          => pc'[c] = "failed" /\ result'[c].err = "AbortError" ]_vars

\* In v4 a call failed with an abort error only on its fourth attempt
C19_Witness ==
  \E c \in Calls :
    /\ version = "v4" /\ pc[c] = "failed" /\ result[c].err = "AbortError"
    /\ netCalls[c] = MaxAttempts + 1

\* The body the origin, or the earlier process, gave together with a record
ReceivedWith(m) ==
  IF m.status = 404 THEN "b2"
  ELSE IF m.status = 204 THEN ""
  ELSE IF m.h.cc = <<MaxAge(1)>> THEN "b1" ELSE "b0"

\* C21: at every instant, hence wherever the process may stop, a metadata
\* record that is visible has its body file complete, holding the body that
\* was received with that record, also while an entry is being overwritten.
C21_MetadataImpliesBody ==
  \A s \in Slots :
    meta[s].kind = "ok" => body[s] = ReceivedWith(meta[s])

\* The body file of a stored entry was truncated for the new response while
\* the .headers file still holds the record of the old one
C21_Witness ==
  \E c \in Calls :
    /\ pc[c] = "stream" /\ headers[c] = FreshEntry
    /\ meta[Slot(c)] = FreshEntry /\ body[Slot(c)] = "partial"

\* C22: each of cacheFolder, resetCache, refresh and logToConsole that the
\* options of a call give is the value the call uses, whatever globalConfig
\* holds; the value of globalConfig is used when the call gives none (for
\* refresh: neither refresh nor one of the two deprecated flags).
C22_OptionsOverrideGlobal ==
  [][ \A c \in Calls :
        (pc[c] = "idle" /\ pc'[c] # "idle")
          => \A o \in ConfigOptions :
             opt'[c] = Config(o, globalConfig)
          => LET config == opt'[c] IN
             /\ config.cacheFolder =
                  IF o.cacheFolder # "" THEN o.cacheFolder
                  ELSE globalConfig.cacheFolder
             /\ config.resetCache =
                  IF "resetCache" \in o.has THEN o.resetCache
                  ELSE globalConfig.resetCache
             /\ config.logToConsole =
                  IF "logToConsole" \in o.has THEN o.logToConsole
                  ELSE globalConfig.logToConsole
             /\ "refresh" \in o.has => config.refresh = o.refresh
             /\ o.has \cap {"refresh", "forceRefresh", "avoidNetworkRequests"} = {}
                  => config.refresh = globalConfig.refresh
             /\ config.refresh # globalConfig.refresh => "refresh" \in o.has
                  \/ ("forceRefresh" \in o.has /\ o.forceRefresh)
                  \/ ("avoidNetworkRequests" \in o.has /\ o.avoidNetworkRequests)
             /\ pc'[c] = "rimraf"
                  <=> config.resetCache /\ ~cacheFolderReset[config.cacheFolder] ]_vars

\* Every global setting differs from what the call was given: the call
\* cleared its own folder, made no request in mode 'never' and was served
\* from that folder's store
C22_Witness ==
  \E c \in Calls :
    /\ pc[c] = "done" /\ netCalls[c] = 0 /\ result[c].hit
    /\ opt[c].cacheFolder = "F2" /\ globalConfig.cacheFolder = "F1"
    /\ opt[c].refresh.mode = "never" /\ globalConfig.refresh.mode = "force"
    /\ opt[c].logToConsole /\ ~globalConfig.logToConsole
    /\ ~opt[c].resetCache /\ globalConfig.resetCache
    /\ ~cacheFolderReset["F2"]

\* C23: a response of any status but 304 (200, 404, 204) is persisted with
\* its status, and a later call that finds the entry fresh makes no request
\* and returns that status from the cache.
C23_AnyStatusCached ==
  [][ \A c \in Calls :
        /\ (pc[c] = "net" /\ pc'[c] \notin {"net", "write304"})
             => pc'[c] = "stream"
        /\ (pc[c] = "writeMeta" /\ pc'[c] # "writeMeta")
             => /\ meta'[Slot(c)].kind = "ok"
                /\ meta'[Slot(c)].status = resp[c].status
        /\ ( /\ pc[c] = "readFromCache" /\ pc'[c] # "readFromCache"
             /\ netCalls[c] = 0 /\ meta[Slot(c)].kind = "ok" )
             => /\ pc'[c] = "done"
                /\ result'[c].hit
                /\ result'[c].status = meta[Slot(c)].status ]_vars

\* A 404 was stored by one call and served to the next without a request
C23_Witness ==
  \E c, d \in Calls :
    /\ c < d /\ pc[c] = "done" /\ netCalls[c] = 1 /\ result[c].status = 404
    /\ pc[d] = "done" /\ netCalls[d] = 0 /\ result[d].hit
    /\ result[d].status = 404 /\ result[d].body = "b2"

\* A 204 was stored by one call; the next call found the entry fresh and
\* failed when it built its response
C23_NoContentWitness ==
  \E c, d \in Calls :
    /\ version = "v5" /\ c < d /\ netCalls[c] = 1
    /\ meta[Slot(d)].kind = "ok" /\ meta[Slot(d)].status = 204
    /\ pc[d] = "failed" /\ netCalls[d] = 0 /\ result[d].err = "TypeError"

\* C24: a call that owns the pending fetch and finds the .headers file
\* missing or malformed goes to the network, and does not fail when the
\* origin answers: it returns the 304 it was given, or stores the response
\* and returns what it reads back.
C24_NoRecordNeverFails ==
  [][ \A c \in Calls :
        /\ ( /\ pc[c] = "readHeaders" /\ pc'[c] # "readHeaders"
             /\ meta[Slot(c)].kind # "ok" )
             => pc'[c] = "net" /\ netCalls'[c] = 1
        /\ (pc[c] = "net" /\ headers[c].kind # "ok" /\ pc'[c] # "net")
             => /\ pc'[c] \in {"stream", "done"}
                /\ pc'[c] = "done"
                     => result'[c].kind = "ok" /\ result'[c].status = 304
        /\ ( /\ pc[c] = "readFromCache" /\ pc'[c] # "readFromCache"
             /\ waitsOn[c] = 0 /\ netCalls[c] > 0 )
             => pc'[c] = "done" /\ result'[c].kind = "ok" ]_vars

\* In v4 a call with an If-None-Match of its own found a .headers file that
\* is not JSON, was answered 304 and failed
C24_Witness ==
  \E c \in Calls :
    /\ version = "v4" /\ pc[c] = "failed" /\ result[c].err = "TypeError"
    /\ netCalls[c] = 1 /\ opt[c].inm = "e1" /\ meta[Slot(c)].kind = "bad"

\* C25: the call creates the cache folder when the path does not exist and
\* goes on, also when another call created it in the meantime (EEXIST); it
\* fails when the path is that of a file, and then it has registered no
\* pending fetch and has made no network request.
C25_CacheFolder ==
  [][ \A c \in Calls :
        LET f == opt[c].cacheFolder IN
        /\ (pc[c] = "stat" /\ pc'[c] # "stat")
             => /\ folder[f] = "absent" => pc'[c] = "mkdir"
                /\ folder[f] = "dir" => pc'[c] \in {"readHeaders", "waiting"}
                /\ folder[f] = "file"
                     => /\ pc'[c] = "failed" /\ result'[c].kind = "err"
                        /\ handle'[c] = NoHandle /\ netCalls'[c] = 0
                        /\ pendingFetches' = pendingFetches
        /\ (pc[c] = "mkdir" /\ pc'[c] # "mkdir")
             => /\ folder'[f] = "dir"
                /\ pc'[c] \in {"readHeaders", "waiting"} ]_vars

\* Two calls found the path missing; one created the folder and is over,
\* the mkdir of the other is answered EEXIST and that call went on
C25_Witness ==
  \E c, d \in Calls :
    /\ c # d /\ opt[c].cacheFolder = opt[d].cacheFolder
    /\ pc[c] = "mkdir" /\ folder[opt[c].cacheFolder] = "dir"
    /\ pc[d] \in {"net", "stream"} /\ netCalls[d] = 1

\* The path of the cache folder of a call is that of a file: the call failed
C25_FileWitness ==
  \E c \in Calls :
    /\ pc[c] = "failed" /\ folder[opt[c].cacheFolder] = "file"
    /\ netCalls[c] = 0 /\ handle[c] = NoHandle

\* C26: the request of a call carries the stored last-modified as
\* If-Modified-Since and the stored etag as If-None-Match exactly when a
\* metadata record was read and the caller gave neither header; the headers
\* the caller gave are sent as they are.
C26_ValidatorInjection ==
  \A c \in Calls :
    pc[c] \in {"net", "sleep"}
      => LET sent == RequestHeaders(version, opt[c], headers[c])
             stored == headers[c].kind = "ok" /\ ~isRequestCacheAware(opt[c])
         IN /\ sent.ims = IF stored /\ headers[c].h.lm # NoDate
                           THEN headers[c].h.lm ELSE opt[c].ims
            /\ sent.inm = IF stored /\ headers[c].h.etag # ""
                           THEN headers[c].h.etag ELSE opt[c].inm

\* In v4 the request of a call that gave If-None-Match "e2" carries the
\* stored etag and the stored last-modified
C26_Witness ==
  \E c \in Calls :
    /\ version = "v4" /\ pc[c] = "net" /\ opt[c].inm = "e2" /\ opt[c].ims = NoDate
    /\ headers[c].kind = "ok"
    /\ RequestHeaders(version, opt[c], headers[c]) = [inm |-> "e1", ims |-> 5]

\* C27: a failure of a disk write that persists the outcome of a network
\* exchange (the body file, the .headers file of a full response, the
\* .headers file after a 304) makes the call fail with the error of the write.
C27_WriteFailureFailsCall ==
  [][ \A c \in Calls :
        ( \/ pc[c] = "stream" /\ StreamWriteFail(c)
          \/ pc[c] = "writeMeta" /\ WriteMetaDone(c, FALSE)
          \/ pc[c] = "write304" /\ Write304Done(c, FALSE) )
          => /\ pc'[c] = "failed"
             /\ result'[c].kind = "err" /\ result'[c].err = "EIO" ]_vars

\* The write of the .headers file after a 304 failed: the record is as it
\* was and the only call made returned the stored entry
C27_Witness ==
  \E c \in Calls :
    /\ pc[c] = "done" /\ netCalls[c] = 1 /\ result[c].hit
    /\ faultsLeft = MaxFaults - 1 /\ meta[Slot(c)] = StaleEntry
    /\ \A d \in Calls \ {c} : pc[d] = "idle"

\* C28: in v1, once the URL is in the list of fetched URLs of the cache
\* folder, a call without forceRefresh that finds no pending fetch goes
\* straight to the cache, makes no request and returns the stored content;
\* a call with forceRefresh reads the headers and sends a request.
C28_FetchedOnce ==
  [][ \A c \in Calls :
        fetchedUrls[Fetched(c)]
          => /\ (pc[c] = "getPendingFetch" /\ pc'[c] # "getPendingFetch")
                  => IF opt[c].refresh.mode # "force"
                     THEN pc'[c] = "readFromCache" /\ netCalls'[c] = 0
                     ELSE pc'[c] = "readHeaders"
             /\ ( /\ pc[c] = "readHeaders" /\ pc'[c] # "readHeaders"
                  /\ opt[c].refresh.mode = "force" )
                  => pc'[c] = "net" /\ netCalls'[c] = 1
             /\ ( /\ pc[c] = "readFromCache" /\ pc'[c] # "readFromCache"
                  /\ opt[c].refresh.mode # "force" )
                  => /\ pc'[c] = "done" /\ netCalls'[c] = 0
                     /\ result'[c].kind = "ok" /\ result'[c].hit
                     /\ result'[c].body = body[Slot(c)] ]_vars

\* A first call fetched the URL; a second call with neither flag was served
\* from the cache without a request, on its own and not as a waiter
C28_Witness ==
  \E c, d \in Calls :
    /\ version = "v1" /\ c < d
    /\ pc[c] = "done" /\ netCalls[c] = 1 /\ fetchedUrls[Fetched(c)]
    /\ pc[d] = "done" /\ netCalls[d] = 0 /\ waitsOn[d] = 0
    /\ opt[d].refresh.mode = "default" /\ result[d].hit

\* and a second call with forceRefresh sent another request
C28_ForceWitness ==
  \E c, d \in Calls :
    /\ version = "v1" /\ c < d /\ pc[c] = "done" /\ netCalls[c] = 1
    /\ fetchedUrls[Fetched(d)] /\ opt[d].refresh.mode = "force"
    /\ pc[d] = "done" /\ netCalls[d] = 1

\* C29: a call that found a pending fetch for its URL never reads the
\* headers to judge freshness and never invokes the network primitive,
\* whatever its refresh mode; when the pending fetch is over it reads the
\* store and returns the response built from what the store holds then.
C29_WaiterOnlyReadsCache ==
  [][ \A c \in Calls :
        waitsOn'[c] # 0
          => /\ netCalls'[c] = 0
             /\ headers'[c] = NoMeta /\ remaining'[c] = 0
             /\ pc'[c] \in {"waiting", "readFromCache", "done", "failed"}
             /\ (pc[c] = "waiting" /\ pc'[c] # "waiting")
                  => handle[waitsOn[c]].state # "pending"
             /\ (pc[c] = "readFromCache" /\ pc'[c] = "done")
                  => result'[c] = CacheResponse(version, opt[c], meta[Slot(c)],
                                                body[Slot(c)]) ]_vars

\* A call in mode 'force' waited on the pending fetch of another call and
\* was served from the store without a request
C29_Witness ==
  \E c, d \in Calls :
    /\ waitsOn[d] = c /\ opt[d].refresh.mode = "force"
    /\ pc[d] = "done" /\ netCalls[d] = 0 /\ result[d].hit
    /\ netCalls[c] = 1

\* C30: the 304 of a revalidation changes, in the stored record, only
\* `received` and the expires, cache-control and date headers, which take
\* the values of the 304 when it carries them; the status, the etag, the
\* last-modified and the other headers of the record stay, and so do the body
\* file and every other entry.  A write that fails changes nothing.
C30_RevalidationFrame ==
  [][ \A c \in Calls :
        /\ (pc[c] = "net" /\ pc'[c] = "write304")
             => \E r \in {Origin304, Origin304Full} :
                  /\ headers'[c].kind = "ok"
                  /\ headers'[c].status = headers[c].status
                  /\ headers'[c].received = ToUTCString(now)
                  /\ headers'[c].h =
                       [headers[c].h EXCEPT
                          !.expires = IF r.h.expires # NoDate THEN r.h.expires ELSE @,
                          !.cc = IF r.h.cc # <<>> THEN r.h.cc ELSE @,
                          !.date = IF r.h.date # NoDate THEN r.h.date ELSE @]
                  /\ meta' = meta /\ body' = body
        /\ (pc[c] = "write304" /\ pc'[c] # "write304")
             => /\ body' = body
                /\ \A s \in Slots \ {Slot(c)} : meta'[s] = meta[s]
                /\ \/ meta'[Slot(c)] = meta[Slot(c)]
                   \/ meta'[Slot(c)] =
                        [meta[Slot(c)] EXCEPT !.received = headers[c].received,
                                              !.h.expires = headers[c].h.expires,
                                              !.h.cc = headers[c].h.cc,
                                              !.h.date = headers[c].h.date] ]_vars

\* An entry with etag "e1" and a last-modified was revalidated by a 304
\* that carries other values for every header: the record has the Expires of
\* the 304 and the validators and content type it had
C30_SequentialWitness ==
  \E c \in Calls :
    /\ pc[c] = "done" /\ netCalls[c] = 1
    /\ meta[Slot(c)].h.expires = 7 /\ meta[Slot(c)].h.date = 1
    /\ meta[Slot(c)].h.etag = "e1" /\ meta[Slot(c)].h.lm = 5
    /\ meta[Slot(c)].h.ctype = "text" /\ meta[Slot(c)].status = 200
    /\ body[Slot(c)] = "b0"

\* The record a call read before its conditional request is back in the store
\* after its 304, over a body file that another call, whose write stream
\* failed, had already replaced
C30_Witness ==
  \E c, d \in Calls :
    /\ c # d /\ Slot(c) = Slot(d)
    /\ pc[d] = "failed" /\ netCalls[d] = 1 /\ result[d].err = "EIO"
    /\ orphan[d] = "none" /\ resp[d] = NoResp
    /\ pc[c] = "readFromCache" /\ netCalls[c] = 1
    /\ meta[Slot(c)].status = 200 /\ meta[Slot(c)].h.etag = "e1"
    /\ body[Slot(c)] = "partial"

\* C31: the handle a call created stays in pendingFetches, under its URL,
\* for as long as it is unsettled; it is settled by a step of the call that
\* created it and by no other call; a call that returned or threw left no
\* unsettled handle, and a call that waits on the handle of a call that
\* returned or threw is woken in the end.
C31_HandleDiscipline ==
  /\ [](\A c \in Calls :
          /\ handle[c].state = "pending" => pendingFetches[opt[c].url] = c
          /\ Over(c) => handle[c].state # "pending")
  /\ [][ \A c \in Calls :
           (handle[c].state = "pending" /\ handle'[c].state # "pending")
             => /\ pc'[c] # pc[c]
                /\ \A d \in Calls \ {c} : pc'[d] = pc[d] ]_vars
  /\ \A c, d \in Calls :
       (pc[d] = "waiting" /\ waitsOn[d] = c /\ Over(c)) ~> pc[d] # "waiting"

\* A call waited on the handle of another call, which resolved it and
\* returned, and was woken; a third handle was never needed
C31_Witness ==
  \E c, d \in Calls :
    /\ waitsOn[d] = c /\ pc[c] = "done" /\ handle[c].state = "resolved"
    /\ pc[d] = "readFromCache" /\ handle[d].state = "none"
    /\ pendingFetches[opt[c].url] = 0

\* C32: the pending fetches are looked up by URL string. A call that leaves
\* checkCacheFolder waits exactly when a handle is registered under its own
\* URL string, and then on that handle; a pending fetch of another URL
\* string with the same cache key does not hold it back: it registers its own
\* handle and becomes an owner, over the same .headers and body files.
C32_SameKeyUncoordinated ==
  [][ \A d \in Calls :
        (pc[d] \in {"stat", "mkdir"} /\ pc'[d] \notin {"stat", "mkdir", "failed"})
          => /\ pc'[d] = "waiting" <=> pendingFetches[opt[d].url] # 0
             /\ pc'[d] = "waiting" => opt[waitsOn'[d]].url = opt[d].url
             /\ pc'[d] # "waiting"
                  => /\ pc'[d] = "readHeaders"
                     /\ handle'[d].state = "pending"
                     /\ pendingFetches'[opt[d].url] = d
                     /\ \A c \in Calls \ {d} :
                          (handle[c].state = "pending"
                             /\ filenamify(opt[c].url) = filenamify(opt[d].url))
                            => /\ handle'[c].state = "pending"
                               /\ Slot(c) = Slot(d) ]_vars

\* Two owners, for two URL strings, write the one body file at the same time
C32_Witness ==
  \E c, d \in Calls :
    /\ opt[c].url = "u1" /\ opt[d].url = "u1b" /\ Slot(c) = Slot(d)
    /\ pc[c] = "stream" /\ pc[d] = "stream"
    /\ handle[c].state = "pending" /\ handle[d].state = "pending"
    /\ netCalls[c] = 1 /\ netCalls[d] = 1

\* C33: in the modes 'once' and integer, a call that reads a stored record
\* whose `received` is not set or is not a date goes on to the network:
\* the entry is judged expired.
C33_UnknownAgeIsExpired ==
  [][ \A c \in Calls :
        ( /\ pc[c] = "readHeaders" /\ pc'[c] # "readHeaders"
          /\ opt[c].refresh.mode \in {"once", "int"}
          /\ meta[Slot(c)].kind = "ok"
          /\ meta[Slot(c)].received \in {NoDate, BadDate} )
          => pc'[c] = "net" ]_vars

\* An entry whose `received` is not a date was served in mode 'once'
\* without a request
C33_Witness ==
  \E c \in Calls :
    /\ pc[c] = "done" /\ netCalls[c] = 0 /\ result[c].hit
    /\ opt[c].refresh.mode = "once"
    /\ meta[Slot(c)].received = BadDate

\* An entry without `received` whose Date header is later than the load of
\* the module was served in mode 'once' without a request
C33_DateWitness ==
  \E c \in Calls :
    /\ pc[c] = "done" /\ netCalls[c] = 0 /\ result[c].hit
    /\ opt[c].refresh.mode = "once"
    /\ meta[Slot(c)].received = NoDate /\ meta[Slot(c)].h.date = 2

\* C34: while a call clears a cache folder, no call with resetCache that
\* found the marker of the folder set takes a step that reads or writes the
\* files of the folder; and the end of a clearing deletes no entry that a
\* later call wrote and returned.
C34_ResetExcludesOthers ==
  [][ \A c, d \in Calls :
        ( /\ c # d /\ pc[c] = "rimraf"
          /\ pc[d] # "idle" /\ opt[d].resetCache
          /\ opt[d].cacheFolder = opt[c].cacheFolder )
          => /\ (pc[d] \in {"readHeaders", "net", "stream", "closing", "writeMeta",
                            "write304", "readFromCache"})
                  => pc'[d] = pc[d]
             /\ ~( /\ pc'[c] = "stat" /\ pc[d] = "done" /\ netCalls[d] > 0
                   /\ meta[Slot(d)].kind = "ok" /\ meta'[Slot(d)].kind = "absent" )
    ]_vars

\* A call with resetCache found the marker set, stored the answer of the
\* origin and returned it; the clearing the earlier call had started then
\* deleted the entry
C34_Witness ==
  \E c, d \in Calls :
    /\ c < d /\ opt[c].resetCache /\ opt[d].resetCache
    /\ opt[c].cacheFolder = opt[d].cacheFolder
    /\ pc[c] = "stat" /\ pc[d] = "done" /\ netCalls[d] = 1 /\ result[d].hit
    /\ meta[Slot(d)].kind = "absent" /\ body[Slot(d)] = NoFile

\* C35: what the caller reads from the body stream of a response served
\* from the cache is the body that was stored with the status and headers of
\* that response, whenever the caller reads it and whatever later calls did
\* to the entry in between.
C35_BodyAsReturned ==
  [][ \A c \in Calls :
        (readable[c] = "unread" /\ readable'[c] # "unread")
          => readable'[c] = result[c].body ]_vars

\* A response served from the cache was read after a later call in mode
\* 'force' had opened the body file for writing: the caller got the
\* status and headers of the stored entry and none of its body
C35_Witness ==
  \E c, d \in Calls :
    /\ c < d /\ Slot(c) = Slot(d) /\ opt[d].refresh.mode = "force"
    /\ pc[c] = "done" /\ netCalls[c] = 0 /\ result[c].body = "b0"
    /\ result[c].status = 200
    /\ readable[c] = "partial"

\* C36: a 304 of the origin is taken for the revalidation of the stored
\* record (the record is rewritten with a new `received` and the stored body
\* is served) only when the If-None-Match and If-Modified-Since the request
\* carried were the etag and the last-modified of that record.
C36_RevalidationByOwnValidators ==
  [][ \A c \in Calls :
        (pc[c] = "net" /\ pc'[c] = "write304")
          => LET sent == RequestHeaders(version, opt[c], headers[c]) IN
             /\ sent.inm # "" => sent.inm = headers[c].h.etag
             /\ sent.ims # NoDate => sent.ims = headers[c].h.lm ]_vars

\* The caller sent If-None-Match "e2" over a stored entry with etag "e1";
\* after the 304 of the origin the record has a new `received` and the call
\* returned the stored body with status 200
C36_Witness ==
  \E c \in Calls :
    /\ version = "v5" /\ pc[c] = "done" /\ netCalls[c] = 1
    /\ opt[c].inm = "e2" /\ opt[c].ims = NoDate
    /\ meta[Slot(c)].h.etag = "e1" /\ meta[Slot(c)].h.expires = 7
    /\ result[c].hit /\ result[c].status = 200 /\ result[c].body = "b0"

\* C37: the headers object of the options the caller passes holds after
\* every call what it held before, and so the request of a call carries no
\* validator but those of the record stored for its own URL.
C37_OptionsUnchanged ==
  /\ callerHeaders = NoValidators
  /\ \A c \in Calls :
       pc[c] \in {"net", "sleep"}
         => LET sent == RequestHeaders(version, opt[c], headers[c]) IN
            /\ sent.inm = headers[c].h.etag
            /\ sent.ims = headers[c].h.lm

\* In v4 the request for "u2", for which no validator is stored, carries
\* the etag of the entry of "u1", left in the options by the call before
C37_Witness ==
  \E c, d \in Calls :
    /\ version = "v4" /\ c < d
    /\ opt[c].url = "u1" /\ opt[d].url = "u2" /\ opt[c].shared /\ opt[d].shared
    /\ pc[c] = "done" /\ pc[d] = "net"
    /\ headers[d].h.etag = ""
    /\ RequestHeaders(version, opt[d], headers[d]).inm = "e1"
    /\ callerHeaders.inm = "e1"

\* The opaque tag of an entity tag: the tag without its weakness mark
OpaqueTag(etag) ==
  CASE etag = "W/e1" -> "e1"
    [] etag = "W/e2" -> "e2"
    [] OTHER -> etag

\* C38: a response read from the cache is a 304 exactly when, If-None-Match
\* listing at least one etag, one of them has the opaque tag of the stored
\* etag, whatever If-Modified-Since holds; or, If-None-Match listing none,
\* If-Modified-Since is a date, the stored last-modified is one too, and the
\* former is not earlier than the latter.
C38_ValidatorPriority ==
  [][ \A c \in Calls :
        (pc[c] = "readFromCache" /\ pc'[c] = "done")
          => LET o == opt[c]
                 stored == meta[Slot(c)].h
                 listed == SplitEtags(o.inm)
             IN result'[c].status = 304
                  <=> IF listed # <<>>
                      THEN \E i \in 1..Len(listed) :
                             OpaqueTag(listed[i]) = OpaqueTag(stored.etag)
                      ELSE /\ o.ims \notin {NoDate, BadDate}
                           /\ stored.lm \notin {NoDate, BadDate}
                           /\ o.ims >= stored.lm ]_vars

\* A 304 for `If-None-Match: e2, W/e1` over the stored etag "e1", although
\* If-Modified-Since is earlier than the stored last-modified
C38_Witness ==
  \E c \in Calls :
    /\ pc[c] = "done" /\ netCalls[c] = 0 /\ result[c].status = 304
    /\ opt[c].inm = "e2, W/e1" /\ opt[c].ims = 3
    /\ meta[Slot(c)].h.etag = "e1" /\ meta[Slot(c)].h.lm = 4

\* The stored body for an If-None-Match that lists no stored etag, although
\* If-Modified-Since is later than the stored last-modified
C38_NoMatchWitness ==
  \E c \in Calls :
    /\ pc[c] = "done" /\ netCalls[c] = 0 /\ result[c].hit
    /\ opt[c].inm = "e2" /\ opt[c].ims = 5
    /\ meta[Slot(c)].h.etag = "W/e1" /\ meta[Slot(c)].h.lm = 4

====
